---- MODULE Spec2Model ----
(***************************************************************************)
(* State-machine model of the rtk-system movement sensors: the rover       *)
(* position resolver (Position with its last-known-position cache), the    *)
(* sliding-window error tracker, and the I2C NMEA ingest loop with the     *)
(* queries that read the tracker, the NMEA sentence framer, the correction  *)
(* relays of the rovers, Close, and Validate of the station configs.       *)
(***************************************************************************)
EXTENDS Integers, Sequences, FiniteSets, TLC

VARIABLES
    comp,          \* which component instance is running
    err,           \* g.err: the LastError tracker [errs, count, threshold]
    lastposition,  \* g.lastposition: the cached point, NilPoint when empty
    data,          \* g.data: the positioning snapshot written by the ingest task
    ret,           \* what the last query returned, with the values it read
    pc,            \* position of the NMEA ingest task in its loop
    closing,       \* Close: "no" (not called), "waiting" (cancelled, in Wait), "closed"
    outcomes,      \* history: the last HistLen outcomes handed to g.err.Set
    everDegraded,  \* history: the tracker has reported an error at some query
    strBuf,        \* the NMEA framer's sentence buffer (bytes of the Go string)
    buffer,        \* the bytes of the block just read that are still to be framed
    kept,          \* history: the bytes fed since the last CR, LF and 0xFF left out
    feed,          \* what the last framer step was fed and what it emitted
    rpc,           \* position of start-up and then of the correction relay task
    cpc,           \* position of the rover's Close
    readI2c,       \* g.readI2c: "nil", or the state of the handle it points to
    writeI2c,      \* g.writeI2c, likewise
    i2cBus,        \* the local handle i2cBus of initializeI2C / of the one-address relay
    buf,           \* the relay's block buffer in this iteration
    readOk,        \* the read of this iteration succeeded
    wrote,         \* the arguments of WriteBytes in this iteration
    ioFailed,      \* history: a read or a write of the relay has failed
    closeErr,      \* what Close returned
    spc,           \* position of the serial rover's correction relay task
    correctionReader,  \* g.correctionReader: "nil" or the state of the port
    correctionWriter,  \* g.correctionWriter, likewise
    scannerGen,    \* how many RTCM framers the relay has created
    bufw,          \* the bytes held by the relay's bufio.Writer
    werr,          \* the sticky error of the bufio.Writer
    dest,          \* the bytes delivered to the destination port
    readFrames,    \* history: the recognized frames read from the source, as sent
    sstep,         \* what the last relay iteration obtained, with the values it found
    mu,            \* who holds the snapshot's write lock: "free" or "ingest"
    cfg,           \* the config handed to Validate
    vres,          \* what Validate returned
    chkData,       \* the payload handed to addChk
    chkCmd,        \* what addChk returned
    initLog,       \* history: the outcomes of start-up's writes and close, in order
    stn,           \* the I2C correction station and its source: tasks, tokens, Close
    ports          \* the serial rover's port handles, the fields that refer to them, its tasks

framerVars == <<strBuf, buffer, kept, feed>>
handleVars == <<readI2c, writeI2c, i2cBus>>
relayVars == <<rpc, handleVars, buf, readOk, wrote, ioFailed, initLog>>
closeVars == <<cpc, closeErr>>
serialVars == <<spc, correctionReader, correctionWriter, scannerGen, bufw, werr,
                dest, readFrames, sstep>>

validateVars == <<cfg, vres, chkData, chkCmd, stn, ports>>

\* The state of the tasks a specification does not run.
extNoMu == <<framerVars, relayVars, closeVars, serialVars, validateVars>>
ext == <<extNoMu, mu>>

vars == <<comp, err, lastposition, data, ret, pc, closing, outcomes, everDegraded, ext>>

NoFeed == [fed |-> FALSE, byte |-> 0, before |-> <<>>, keptBefore |-> <<>>, emitted |-> <<>>]

FramerIdle == strBuf = <<>> /\ buffer = <<>> /\ kept = <<>> /\ feed = NoFeed

NoStep == [kind |-> "none", bufwBefore |-> <<>>, destBefore |-> <<>>,
           errBefore |-> "nil", genBefore |-> 0, portWriteFailed |-> FALSE]

CloseIdle == cpc = "idle" /\ closeErr = "nil"

SerialIdle ==
    /\ spc = "off"
    /\ correctionReader = "nil"
    /\ correctionWriter = "nil"
    /\ scannerGen = 0
    /\ bufw = <<>>
    /\ werr = "nil"
    /\ dest = <<>>
    /\ readFrames = <<>>
    /\ sstep = NoStep

RelayIdle ==
    /\ rpc = "off"
    /\ readI2c = "nil"
    /\ writeI2c = "nil"
    /\ i2cBus = "nil"
    /\ buf = <<>>
    /\ readOk = FALSE
    /\ wrote = <<>>
    /\ ioFailed = FALSE
    /\ initLog = <<>>

NoCfg == [kind |-> "none", RequiredAccuracy |-> 0, RequiredTime |-> 0, SerialPath |-> "",
          I2CBus |-> 0, I2CAddr |-> 0]
NoValidation == [called |-> FALSE, err |-> "nil", deps |-> <<>>]
NoStation == [task |-> "off", src |-> "off", cancelled |-> FALSE, srcCancelled |-> FALSE,
              srcMu |-> "free", bus |-> "nil", close |-> "idle", closeRet |-> "nil",
              srcExit |-> "none"]
PortHandles == {"nmeaPort", "readerPort", "relayPort"}
NoPorts == [nmea |-> "off", relay |-> "off", cancelled |-> FALSE, close |-> "idle",
            correctionReader |-> "nil", correctionWriter |-> "nil",
            h |-> [id \in PortHandles |-> "unopened"]]
ValidateIdle ==
    /\ cfg = NoCfg /\ vres = NoValidation /\ chkData = <<>> /\ chkCmd = <<>>
    /\ stn = NoStation
    /\ ports = NoPorts

OtherIdle == ValidateIdle /\ mu = "free"

ExtIdle == FramerIdle /\ RelayIdle /\ CloseIdle /\ SerialIdle /\ OtherIdle

-----------------------------------------------------------------------------
(* Values *)

\* Largest finite coordinate / altitude value the snapshot takes.
MaxFloat == 1

\* math.NaN(): a float that is equal to nothing, itself included.
NaN == -1

Floats == 0..MaxFloat
FloatsNaN == Floats \cup {NaN}

FloatEq(a, b) == a # NaN /\ b # NaN /\ a = b

\* A *geo.Point is <<lat, lon>>; the nil pointer is the empty tuple.
NilPoint == <<>>
NewPoint(lat, lon) == <<lat, lon>>
Lat(p) == p[1]
Lng(p) == p[2]
Points == {NewPoint(a, b) : a \in FloatsNaN, b \in FloatsNaN}
OptPoints == Points \cup {NilPoint}

NoErr == "nil"
errNilLocation == "errNilLocation"
errI2C == "errI2C"

-----------------------------------------------------------------------------
(* movementsensor.LastPosition *)

NewLastPosition == NilPoint

IsZeroPosition(p) == Lng(p) = 0 /\ Lat(p) = 0

IsPositionNaN(p) == Lng(p) = NaN /\ Lat(p) = NaN

ArePointsEqual(p1, p2) ==
    IF p1 = NilPoint \/ p2 = NilPoint
    THEN p1 = p2
    ELSE FloatEq(Lng(p1), Lng(p2)) /\ FloatEq(Lat(p1), Lat(p2))

-----------------------------------------------------------------------------
(* movementsensor.LastError *)

NewLastError(size, threshold) ==
    [errs |-> [i \in 1..size |-> NoErr], count |-> 0, threshold |-> threshold]

\* Drop the oldest outcome, append the newest, keep count = number of failures.
LastErrorSet(le, e) ==
    [le EXCEPT !.errs = Append(Tail(@), e),
               !.count = @ - (IF Head(le.errs) # NoErr THEN 1 ELSE 0)
                           + (IF e # NoErr THEN 1 ELSE 0)]

\* The newest failure in the window.
RECURSIVE MostRecentError(_)
MostRecentError(errs) ==
    IF errs = <<>> THEN NoErr
    ELSE IF errs[Len(errs)] # NoErr THEN errs[Len(errs)]
    ELSE MostRecentError(SubSeq(errs, 1, Len(errs) - 1))

LastErrorGet(le) ==
    IF le.count < le.threshold THEN NoErr ELSE MostRecentError(le.errs)

-----------------------------------------------------------------------------
(* The rover: RTKI2CNoNetwork / rtkSerialNoNetwork *)

\* Position is the same statement sequence in part_006 (I2C rover) and
\* part_008 (serial rover).  Under Spec the snapshot is rewritten by the
\* ingest task and outcomes are recorded by the background tasks at any time
\* between two queries; a query runs as one step.

\* err: movementsensor.NewLastError(1, 1) in newRTKI2CNoNetwork.
RoverErrSize == 1
RoverErrThreshold == 1
NewRoverLastError == NewLastError(RoverErrSize, RoverErrThreshold)

\* The zero gpsnmea.GPSData of a freshly constructed sensor.
NewGPSData ==
    [Location |-> NilPoint, Alt |-> 0, Speed |-> 0, FixQuality |-> 0, HDOP |-> 0, VDOP |-> 0]

NoRet ==
    [op |-> "none", loc |-> NilPoint, alt |-> 0, err |-> NoErr, panicked |-> FALSE,
     sets |-> 0, curr |-> NilPoint, last |-> NilPoint, lastError |-> NoErr, val |-> <<>>]

\* A return of Position: the triple handed back, the cache as it is left, and
\* the number of SetLastPosition calls made.
PosReturn(loc, alt, e, cache, sets) ==
    [loc |-> loc, alt |-> alt, err |-> e, panicked |-> FALSE, cache |-> cache, sets |-> sets]

\* IsZeroPosition on a nil *geo.Point dereferences nil: the call panics.
PosPanic(cache) ==
    [loc |-> NilPoint, alt |-> 0, err |-> NoErr, panicked |-> TRUE, cache |-> cache, sets |-> 0]

\* The branch taken when g.err.Get() reports an error on entry.
ErroredReturnNoCache(lastError, lastPosition) ==
    PosReturn(NewPoint(NaN, NaN), NaN, lastError, lastPosition, 0)

ErroredReturn(lastError, lastPosition) ==
    IF lastPosition # NilPoint
    THEN PosReturn(lastPosition, 0, NoErr, lastPosition, 0)
    ELSE PosReturn(NewPoint(NaN, NaN), NaN, lastError, lastPosition, 0)

\* The branch taken when the snapshot has no location.
NilLocationReturnAlt(lastPosition, d) ==
    PosReturn(lastPosition, d.Alt, errNilLocation, lastPosition, 0)

NilLocationReturn(lastPosition, d) ==
    PosReturn(lastPosition, 0, errNilLocation, lastPosition, 0)

\* "if current position is (0,0) we will return the last non zero position"
ZeroFallbackDropped(currentPosition, lastPosition) ==
    IsZeroPosition(currentPosition) /\ IsZeroPosition(lastPosition)

ZeroFallback(currentPosition, lastPosition) ==
    IsZeroPosition(currentPosition) /\ ~IsZeroPosition(lastPosition)

\* The two conditional SetLastPosition(currentPosition) calls: the cache they
\* leave and how many of them ran.
PositionUpdateOnlyIfDifferent(currentPosition, lastPosition) ==
    LET differs == ~ArePointsEqual(currentPosition, lastPosition)
    IN  [cache |-> IF differs THEN currentPosition ELSE lastPosition,
         sets |-> IF differs THEN 1 ELSE 0]

PositionUpdateNone(currentPosition, lastPosition) ==
    [cache |-> lastPosition, sets |-> 0]

PositionUpdate(currentPosition, lastPosition) ==
    LET differs == ~ArePointsEqual(currentPosition, lastPosition)
        valid == ~IsZeroPosition(currentPosition) /\ ~IsPositionNaN(currentPosition)
    IN  [cache |-> IF differs \/ valid THEN currentPosition ELSE lastPosition,
         sets |-> (IF differs THEN 1 ELSE 0) + (IF valid THEN 1 ELSE 0)]

\* Position, from the tracker le, the cache lastPosition and the snapshot d.
PositionResult(le, lastPosition, d) ==
    LET lastError == LastErrorGet(le)
        currentPosition == d.Location
        upd == PositionUpdate(currentPosition, lastPosition)
    IN  IF lastError # NoErr
        THEN ErroredReturn(lastError, lastPosition)
        ELSE IF currentPosition = NilPoint
        THEN NilLocationReturn(lastPosition, d)
        ELSE IF IsZeroPosition(currentPosition) /\ lastPosition = NilPoint
        THEN PosPanic(lastPosition)
        ELSE IF ZeroFallback(currentPosition, lastPosition)
        THEN PosReturn(lastPosition, d.Alt, LastErrorGet(le), lastPosition, 0)
        ELSE PosReturn(currentPosition, d.Alt, LastErrorGet(le), upd.cache, upd.sets)

i2cVars == <<comp, pc, closing, outcomes, everDegraded>>

\* A caller queries Position.
Position ==
    LET r == PositionResult(err, lastposition, data)
    IN  /\ lastposition' = r.cache
        /\ ret' = [op |-> "Position", loc |-> r.loc, alt |-> r.alt, err |-> r.err,
                   panicked |-> r.panicked, sets |-> r.sets, curr |-> data.Location,
                   last |-> lastposition, lastError |-> LastErrorGet(err), val |-> <<>>]
        /\ UNCHANGED <<ext, err, data, i2cVars>>

\* The ingest task parses a position sentence and updates the snapshot under
\* its write lock.
ParseAndUpdate(loc, alt) ==
    /\ data' = [data EXCEPT !.Location = loc, !.Alt = alt]
    /\ ret' = NoRet
    /\ UNCHANGED <<ext, err, lastposition, i2cVars>>

\* A background task records the outcome of a bus or port operation: g.err.Set(e).
RecordOutcome(e) ==
    /\ err' = LastErrorSet(err, e)
    /\ ret' = NoRet
    /\ UNCHANGED <<ext, lastposition, data, i2cVars>>

Init ==
    /\ comp = "gpsrtki2c"
    /\ err = NewRoverLastError
    /\ lastposition = NewLastPosition
    /\ data = NewGPSData
    /\ ret = NoRet
    /\ pc = "idle"
    /\ closing = "no"
    /\ outcomes = <<>>
    /\ everDegraded = FALSE
    /\ ExtIdle

Next ==
    \/ Position
    \/ \E loc \in OptPoints, alt \in Floats : ParseAndUpdate(loc, alt)
    \/ \E e \in {NoErr, errI2C} : RecordOutcome(e)

Spec == Init /\ [][Next]_vars

-----------------------------------------------------------------------------
(* The I2C components: I2CNMEAMovementSensor and RTKI2CNoNetwork *)

\* Both run the same NMEA ingest loop (gps_nmea_i2c.go Start, part_006
\* readNMEAMessages); they differ in the tracker they are built with and in
\* the error check at the head of the rover's queries.  SpecI2C starts after a
\* successful construction and covers the ingest task, the three queries and
\* the NMEA sensor's Close; the rover's relay task and the rover's Close are
\* outside it.

\* "Only report errors if at least 5 of the last 10 attempts have failed."
I2CErrSize == 10
I2CErrThreshold == 5
NewNMEALastErrorAsRover == NewLastError(RoverErrSize, RoverErrThreshold)
NewNMEALastError == NewLastError(I2CErrSize, I2CErrThreshold)

Components == {"nmeai2c", "gpsrtki2c"}
NewTracker(c) == IF c = "nmeai2c" THEN NewNMEALastError ELSE NewRoverLastError

errI2COpen == "errI2COpen"
errI2CRead == "errI2CRead"
errI2CClose == "errI2CClose"

\* The outcomes handed to g.err.Set, newest last, cut to the last HistLen.
HistLen == I2CErrSize
Remember(h, e) ==
    LET a == Append(h, e) IN IF Len(a) > HistLen THEN Tail(a) ELSE a

\* g.err.Set(e), with the outcome kept in the history.
SetErr(e) ==
    /\ err' = LastErrorSet(err, e)
    /\ outcomes' = Remember(outcomes, e)

Exits == {"exitCancelled", "exitOpenFailed", "exitCloseFailed"}
FatalExits == {"exitOpenFailed", "exitCloseFailed"}

\* Top of the ingest loop: select on cancelCtx.Done().
CheckCancelIgnored ==
    /\ pc = "top"
    /\ pc' = "open"
    /\ ret' = NoRet
    /\ UNCHANGED <<ext, comp, err, lastposition, data, closing, outcomes, everDegraded>>
CheckCancel ==
    /\ pc = "top"
    /\ pc' = IF closing # "no" THEN "exitCancelled" ELSE "open"
    /\ ret' = NoRet
    /\ UNCHANGED <<ext, comp, err, lastposition, data, closing, outcomes, everDegraded>>

\* i2c.NewI2C: a failure is recorded twice and ends the task; a success is
\* recorded once.
OpenBus(e) ==
    /\ pc = "open"
    /\ IF e # NoErr
       THEN /\ err' = LastErrorSet(LastErrorSet(err, e), e)
            /\ outcomes' = Remember(Remember(outcomes, e), e)
            /\ pc' = "exitOpenFailed"
       ELSE /\ SetErr(NoErr)
            /\ pc' = "opened"
    /\ ret' = NoRet
    /\ UNCHANGED <<ext, comp, lastposition, data, closing, everDegraded>>

\* i2cBus.ReadBytes(buffer), its outcome recorded.
ReadBytes(e) ==
    /\ pc = "opened"
    /\ SetErr(e)
    /\ pc' = IF e # NoErr THEN "readFailed" ELSE "readOk"
    /\ ret' = NoRet
    /\ UNCHANGED <<ext, comp, lastposition, data, closing, everDegraded>>

\* i2cBus.Close(), its outcome recorded: a failure ends the task, a failed
\* read goes back to the top of the loop, else the bytes are framed.
CloseBusKeepsBytes(hErr) ==
    /\ pc \in {"readOk", "readFailed"}
    /\ SetErr(hErr)
    /\ pc' = IF pc = "readOk" THEN "parse"
             ELSE IF hErr # NoErr THEN "exitCloseFailed" ELSE "top"
    /\ ret' = NoRet
    /\ UNCHANGED <<ext, comp, lastposition, data, closing, everDegraded>>
CloseBus(hErr) ==
    /\ pc \in {"readOk", "readFailed"}
    /\ SetErr(hErr)
    /\ pc' = IF hErr # NoErr THEN "exitCloseFailed"
             ELSE IF pc = "readFailed" THEN "top" ELSE "parse"
    /\ ret' = NoRet
    /\ UNCHANGED <<ext, comp, lastposition, data, closing, everDegraded>>

\* The bytes read are framed: the rest of the block holds no further
\* sentence end, and the loop goes back to its top.
FrameDone ==
    /\ pc = "parse"
    /\ pc' = "top"
    /\ ret' = NoRet
    /\ UNCHANGED <<ext, comp, err, lastposition, data, closing, outcomes, everDegraded>>

\* A CR ends a non-empty sentence: g.mu.Lock().
LockSnapshot ==
    /\ pc = "parse"
    /\ mu = "free"
    /\ mu' = "ingest"
    /\ pc' = "locked"
    /\ ret' = NoRet
    /\ UNCHANGED <<extNoMu, comp, err, lastposition, data, closing, outcomes, everDegraded>>

\* g.data.ParseAndUpdate(strBuf); g.mu.Unlock(): a velocity sentence updates
\* the snapshot's speed under the write lock, and framing goes on with the
\* rest of the block.
FrameAndParseKeepsLock(speed) ==
    /\ pc = "locked"
    /\ data' = [data EXCEPT !.Speed = speed]
    /\ pc' = "parse"
    /\ ret' = NoRet
    /\ UNCHANGED <<ext, comp, err, lastposition, closing, outcomes, everDegraded>>
FrameAndParse(speed) ==
    /\ pc = "locked"
    /\ data' = [data EXCEPT !.Speed = speed]
    /\ mu' = "free"
    /\ pc' = "parse"
    /\ ret' = NoRet
    /\ UNCHANGED <<extNoMu, comp, err, lastposition, closing, outcomes, everDegraded>>

\* A query of the rover: the error on entry wins, with the empty value.
RoverQuery(le, empty, value) ==
    IF LastErrorGet(le) # NoErr
    THEN [val |-> empty, err |-> LastErrorGet(le)]
    ELSE [val |-> value, err |-> LastErrorGet(le)]

\* A query of the NMEA sensor: the value with whatever the tracker reports.
NMEAQuery(le, value) == [val |-> value, err |-> LastErrorGet(le)]

Query(op, empty, value) ==
    LET r == IF comp = "nmeai2c" THEN NMEAQuery(err, value)
             ELSE RoverQuery(err, empty, value)
    IN  /\ (comp = "nmeai2c" \/ LastErrorGet(err) = NoErr) => mu = "free"
        /\ ret' = [NoRet EXCEPT !.op = op, !.val = r.val, !.err = r.err]
        /\ UNCHANGED <<ext, comp, err, lastposition, data, pc, closing, outcomes, everDegraded>>

Accuracy == Query("Accuracy", <<>>, <<data.HDOP, data.VDOP>>)

LinearVelocityOnX == Query("LinearVelocity", <<0, 0, 0>>, <<data.Speed, 0, 0>>)
LinearVelocity == Query("LinearVelocity", <<0, 0, 0>>, <<0, data.Speed, 0>>)

ReadFix == Query("ReadFix", <<0>>, <<data.FixQuality>>)

\* The methods no component supports, and movementsensor's error for each.
UnsupportedMethods == {"LinearAcceleration", "AngularVelocity", "CompassHeading", "Orientation"}
ErrMethodUnimplemented ==
    [LinearAcceleration |-> "ErrMethodUnimplementedLinearAcceleration",
     AngularVelocity |-> "ErrMethodUnimplementedAngularVelocity",
     CompassHeading |-> "ErrMethodUnimplementedCompassHeading",
     Orientation |-> "ErrMethodUnimplementedOrientation"]

\* The error an unsupported method returns with its zero value.  The NMEA
\* sensor's CompassHeading returns the tracker's error.
UnsupportedErr(c, m, le) ==
    IF c = "nmeai2c" /\ m = "CompassHeading"
    THEN LastErrorGet(le)
    ELSE ErrMethodUnimplemented[m]

Unsupported(m) ==
    /\ mu = "free"
    /\ ret' = [NoRet EXCEPT !.op = m, !.val = <<0>>, !.err = UnsupportedErr(comp, m, err)]
    /\ UNCHANGED <<ext, comp, err, lastposition, data, pc, closing, outcomes, everDegraded>>

\* I2CNMEAMovementSensor.Close: cancel, then wait for the ingest task.
CloseCancel ==
    /\ comp = "nmeai2c"
    /\ closing = "no"
    /\ closing' = "waiting"
    /\ ret' = NoRet
    /\ UNCHANGED <<ext, comp, err, lastposition, data, pc, outcomes, everDegraded>>

\* ... and return what the tracker reports once the task has exited.
CloseReturn ==
    /\ comp = "nmeai2c"
    /\ closing = "waiting"
    /\ pc \in Exits
    /\ closing' = "closed"
    /\ ret' = [NoRet EXCEPT !.op = "Close", !.err = LastErrorGet(err)]
    /\ UNCHANGED <<ext, comp, err, lastposition, data, pc, outcomes, everDegraded>>

InitI2C ==
    /\ comp \in Components
    /\ err = NewTracker(comp)
    /\ lastposition = NewLastPosition
    /\ data = NewGPSData
    /\ ret = NoRet
    /\ pc = "top"
    /\ closing = "no"
    /\ outcomes = <<>>
    /\ everDegraded = FALSE
    /\ ExtIdle

NextI2C ==
    \/ CheckCancel
    \/ \E e \in {NoErr, errI2COpen} : OpenBus(e)
    \/ \E e \in {NoErr, errI2CRead} : ReadBytes(e)
    \/ \E e \in {NoErr, errI2CClose} : CloseBus(e)
    \/ FrameDone
    \/ LockSnapshot
    \/ \E speed \in Floats : FrameAndParse(speed)
    \/ Accuracy
    \/ LinearVelocity
    \/ ReadFix
    \/ \E m \in UnsupportedMethods : Unsupported(m)
    \/ CloseCancel
    \/ CloseReturn

SpecI2C == InitI2C /\ [][NextI2C]_vars

\* A step of the ingest task.
IngestStep ==
    \/ CheckCancel
    \/ \E e \in {NoErr, errI2COpen} : OpenBus(e)
    \/ \E e \in {NoErr, errI2CRead} : ReadBytes(e)
    \/ \E e \in {NoErr, errI2CClose} : CloseBus(e)
    \/ FrameDone
    \/ LockSnapshot
    \/ \E speed \in Floats : FrameAndParse(speed)

\* The ingest task keeps running: each bus call returns, and the block read
\* is finite, so the framing loop comes to its end.
SpecI2CFair == SpecI2C /\ WF_vars(IngestStep) /\ SF_vars(FrameDone)

-----------------------------------------------------------------------------
(* The error tracker on its own: any sequence of Set and Get *)

TrackerSet(e) ==
    /\ SetErr(e)
    /\ ret' = NoRet
    /\ UNCHANGED <<ext, comp, lastposition, data, pc, closing, everDegraded>>

TrackerGet ==
    /\ ret' = [NoRet EXCEPT !.op = "Get", !.err = LastErrorGet(err)]
    /\ everDegraded' = (everDegraded \/ LastErrorGet(err) # NoErr)
    /\ UNCHANGED <<ext, comp, err, lastposition, data, pc, closing, outcomes>>

InitTracker ==
    /\ comp \in Components
    /\ err = NewTracker(comp)
    /\ lastposition = NewLastPosition
    /\ data = NewGPSData
    /\ ret = NoRet
    /\ pc = "idle"
    /\ closing = "no"
    /\ outcomes = <<>>
    /\ everDegraded = FALSE
    /\ ExtIdle

NextTracker ==
    \/ \E e \in {NoErr, errI2C} : TrackerSet(e)
    \/ TrackerGet

SpecTracker == InitTracker /\ [][NextTracker]_vars

-----------------------------------------------------------------------------
(* Claims about the rover position resolver, checked under Spec *)

ZeroPoint == NewPoint(0, 0)
HasNaN(p) == Lat(p) = NaN \/ Lng(p) = NaN
\* A non-zero, non-NaN point.
ValidPoint(p) == p # NilPoint /\ ~IsZeroPosition(p) /\ ~HasNaN(p)

Returned == ret.op = "Position" /\ ~ret.panicked

\* C1: once the cache holds a non-zero, non-NaN point, no step replaces it by
\* the origin or by a point containing NaN (or empties it).
C1_CacheNeverRegresses ==
    [][ValidPoint(lastposition) => ValidPoint(lastposition')]_vars

\* C2: with no recorded error, a snapshot at the origin and a non-zero cached
\* point C, Position returns C with the snapshot's altitude and leaves the
\* cache equal to C.
C2_ZeroFallsBackToCache ==
    (/\ ret.op = "Position"
     /\ ret.lastError = NoErr
     /\ ret.curr = ZeroPoint
     /\ ret.last # NilPoint
     /\ ~IsZeroPosition(ret.last))
    => (/\ ~ret.panicked
        /\ ret.loc = ret.last
        /\ ret.alt = data.Alt
        /\ lastposition = ret.last)

C2_Witness ==
    /\ ret.op = "Position"
    /\ ret.lastError = NoErr
    /\ ret.curr = ZeroPoint
    /\ ValidPoint(ret.last)
    /\ ret.loc = ret.last
    /\ ret.alt # 0

\* C3: with no recorded error, a snapshot containing NaN and a non-zero,
\* non-NaN cached point, Position returns the cached point, not the snapshot.
C3_NaNFallsBackToCache ==
    (/\ Returned
     /\ ret.lastError = NoErr
     /\ ret.curr # NilPoint
     /\ HasNaN(ret.curr)
     /\ ValidPoint(ret.last))
    => (ret.loc = ret.last /\ ~HasNaN(ret.loc))

\* C4: when the tracker reports an error at the query, Position returns the
\* cached point if there is one, else the (NaN, NaN) sentinel with the
\* recorded error; the cache is left as it was.
C4_ErroredReturnsCacheOrSentinel ==
    (ret.op = "Position" /\ ret.lastError # NoErr)
    => (/\ ~ret.panicked
        /\ lastposition = ret.last
        /\ ret.last # NilPoint => ret.loc = ret.last
        /\ ret.last = NilPoint =>
              (/\ ret.loc = NewPoint(NaN, NaN)
               /\ ret.err = ret.lastError))

C4_Witness ==
    /\ ret.op = "Position"
    /\ ret.lastError # NoErr
    /\ ValidPoint(ret.last)
    /\ ValidPoint(ret.curr)
    /\ ret.curr # ret.last
    /\ ret.loc = ret.last

SnapshotEqualsCache == Returned /\ ret.curr # NilPoint /\ ArePointsEqual(ret.curr, ret.last)

\* C6 as stated: when the snapshot location equals the cached point, Position
\* does not call SetLastPosition and returns that point.
C6_EqualPointsNoWrite ==
    SnapshotEqualsCache => (ret.sets = 0 /\ ret.loc = ret.last)

\* C6 amended: when the snapshot location equals the cached point, Position
\* returns that point and the cache still holds it; SetLastPosition runs once
\* (storing that same point) when no error is recorded and the point is not
\* the origin, and not at all otherwise.
C6_EqualPointsSameValue ==
    SnapshotEqualsCache
    => (/\ ret.loc = ret.last
        /\ lastposition = ret.last
        /\ ret.sets = IF ret.lastError = NoErr /\ ~IsZeroPosition(ret.curr) THEN 1 ELSE 0)

C6_Witness ==
    /\ SnapshotEqualsCache
    /\ ret.lastError = NoErr
    /\ ValidPoint(ret.curr)
    /\ ret.sets = 1
    /\ lastposition = ret.last

-----------------------------------------------------------------------------
(* Claims about the error tracker and the I2C components *)

Failures(h) == Cardinality({i \in 1..Len(h) : h[i] # NoErr})
LastN(h, n) == IF Len(h) > n THEN SubSeq(h, Len(h) - n + 1, Len(h)) ELSE h

SizeOf(c) == IF c = "nmeai2c" THEN I2CErrSize ELSE RoverErrSize
ThresholdOf(c) == IF c = "nmeai2c" THEN I2CErrThreshold ELSE RoverErrThreshold

\* C8: after any sequence of recorded outcomes the tracker reports an error
\* exactly when at least K of the N most recent recorded outcomes are
\* failures (N = 10, K = 5 for the I2C NMEA sensor; N = K = 1 for the rover);
\* so successes that push the failures out of the window end the report.
C8_DegradedIffKofN ==
    LastErrorGet(err) # NoErr
    <=> Failures(LastN(outcomes, SizeOf(comp))) >= ThresholdOf(comp)

C8_Witness ==
    /\ comp = "nmeai2c"
    /\ everDegraded
    /\ ret.op = "Get"
    /\ ret.err = NoErr
    /\ Len(outcomes) = I2CErrSize
    /\ Failures(outcomes) = I2CErrThreshold - 1

QueryOps == {"Accuracy", "LinearVelocity", "ReadFix"}

\* C9: in every I2C component a query returns a bus error only if at least 5
\* of the last 10 recorded bus operation outcomes were failures.
C9_BusErrorOnlyIfFiveOfTen ==
    (ret.op \in QueryOps /\ ret.err # NoErr)
    => Failures(LastN(outcomes, I2CErrSize)) >= I2CErrThreshold

\* C10: once the ingest task has ended on a failed open or a failed close,
\* every Accuracy, LinearVelocity and ReadFix query returns an error.
C10_FatalExitSurfaced ==
    (pc \in FatalExits /\ ret.op \in QueryOps) => ret.err # NoErr

-----------------------------------------------------------------------------
(* The NMEA sentence framer of the I2C ingest loop *)

\* The loop over the bytes of a block is the same in gps_nmea_i2c.go Start
\* and in part_006 readNMEAMessages.  SpecFramer runs the ingest loop on
\* iterations whose open, read and close succeed and steps through the block
\* one byte at a time; strBuf lives across blocks.  What a sentence does to
\* the snapshot is ParseAndUpdate of Spec.

CR == 13
LF == 10
Fill == 255
\* An ASCII byte ('$') and a byte above the ASCII range.
Dollar == 36
HighByte == 128

Bytes == {CR, LF, Fill, Dollar, HighByte}

\* Bytes per block (1024 in the code) and the longest buffered sentence.
BlockLen == 2
MaxSentence == 3

Blocks == [1..BlockLen -> Bytes]

\* Go's string(b) of a byte b: the UTF-8 encoding of the code point b, one
\* byte below 0x80 and two bytes from 0x80 on.
StringOfByte(b) ==
    IF b < 128 THEN <<b>> ELSE <<192 + (b \div 64), 128 + (b % 64)>>

\* One pass of the loop body over byte b with buffer sb: the new buffer and
\* the sentences handed to ParseAndUpdate.
FrameByteLFTerminates(sb, b) ==
    IF b = CR \/ b = LF
    THEN [strBuf |-> <<>>, emitted |-> IF sb # <<>> THEN <<sb>> ELSE <<>>]
    ELSE IF b # Fill
         THEN [strBuf |-> sb \o StringOfByte(b), emitted |-> <<>>]
         ELSE [strBuf |-> sb, emitted |-> <<>>]
FrameByte(sb, b) ==
    IF b = CR
    THEN [strBuf |-> <<>>, emitted |-> IF sb # <<>> THEN <<sb>> ELSE <<>>]
    ELSE IF b # LF /\ b # Fill
         THEN [strBuf |-> sb \o StringOfByte(b), emitted |-> <<>>]
         ELSE [strBuf |-> sb, emitted |-> <<>>]

\* An iteration whose open, read and close succeeded: a block is to be framed.
ReadBlock(block) ==
    /\ pc = "top"
    /\ buffer' = block
    /\ pc' = "parse"
    /\ feed' = NoFeed
    /\ UNCHANGED <<comp, err, lastposition, data, ret, closing, outcomes,
                   everDegraded, strBuf, kept, validateVars, mu, relayVars, closeVars, serialVars>>

\* The loop body on the next byte of the block; after the last byte the task
\* is back at the top of the ingest loop.
FeedByte ==
    /\ pc = "parse"
    /\ buffer # <<>>
    /\ LET b == Head(buffer)
           r == FrameByte(strBuf, b)
       IN  /\ Len(r.strBuf) <= MaxSentence
           /\ strBuf' = r.strBuf
           /\ kept' = IF b = CR THEN <<>>
                      ELSE IF b \in {LF, Fill} THEN kept
                      ELSE Append(kept, b)
           /\ feed' = [fed |-> TRUE, byte |-> b, before |-> strBuf,
                       keptBefore |-> kept, emitted |-> r.emitted]
    /\ buffer' = Tail(buffer)
    /\ pc' = IF Tail(buffer) = <<>> THEN "top" ELSE "parse"
    /\ UNCHANGED <<comp, err, lastposition, data, ret, closing, outcomes,
                   everDegraded, validateVars, mu, relayVars, closeVars, serialVars>>

InitFramer ==
    /\ comp \in Components
    /\ err = NewTracker(comp)
    /\ lastposition = NewLastPosition
    /\ data = NewGPSData
    /\ ret = NoRet
    /\ pc = "top"
    /\ closing = "no"
    /\ outcomes = <<>>
    /\ everDegraded = FALSE
    /\ ExtIdle

NextFramer ==
    \/ \E block \in Blocks : ReadBlock(block)
    \/ FeedByte

SpecFramer == InitFramer /\ [][NextFramer]_vars

-----------------------------------------------------------------------------
(* Claims about the NMEA sentence framer, checked under SpecFramer *)

\* C11: a CR fed after a non-empty run of ordinary bytes emits exactly one
\* sentence, equal to the bytes fed since the previous CR without the dropped
\* LF and 0xFF bytes, and leaves the buffer empty; a CR fed on an empty buffer
\* emits nothing.
C11_CREmitsRun ==
    (feed.fed /\ feed.byte = CR)
    => /\ strBuf = <<>>
       /\ feed.emitted = IF feed.keptBefore # <<>> THEN <<feed.keptBefore>>
                         ELSE <<>>
       /\ (feed.before = <<>> => feed.emitted = <<>>)

DroppedBytes == {LF, Fill}
HasDropped(s) == \E i \in 1..Len(s) : s[i] \in DroppedBytes

\* C12: an LF or 0xFF byte is dropped: the step that is fed one leaves the
\* buffer as it was and emits nothing, and neither the buffer nor an emitted
\* sentence ever holds one.
C12_LFAndFillDropped ==
    /\ ~HasDropped(strBuf)
    /\ \A i \in 1..Len(feed.emitted) : ~HasDropped(feed.emitted[i])
    /\ (feed.fed /\ feed.byte \in DroppedBytes)
       => (strBuf = feed.before /\ feed.emitted = <<>>)

C12_Witness ==
    /\ feed.fed
    /\ feed.byte \in DroppedBytes
    /\ feed.before # <<>>

-----------------------------------------------------------------------------
(* The I2C rover: start-up initialisation, correction relay and Close *)

\* comp = "gpsrtki2c" is part_006 (read address and write address, handles in
\* the fields g.readI2c and g.writeI2c); comp = "gpsrtki2cSingle" is
\* gps_rtk_i2c_no_network.go (one address, the handle in a local).  A handle
\* is "nil" (the open failed: NewI2C returns a nil pointer), "open", "closed"
\* or "closeFailed".  A method called on a nil handle dereferences it: the
\* task panics.  SpecRelayI2C runs start-up, the relay task and Close; the
\* NMEA ingest task is SpecI2C.

RelayComponents == {"gpsrtki2c", "gpsrtki2cSingle"}

errI2CWrite == "errI2CWrite"
\* os.File.Close on a file that is already closed.
errAlreadyClosed == "errAlreadyClosed"

\* The first byte of an RTCM3 frame, and the zero of a buffer never filled.
Preamble == 211
ZeroByte == 0
RelayBytes == {Fill, ZeroByte, Preamble}

\* Bytes per relay block (1024 in the code).
RelayBlockLen == 2
RelayBlocks == [1..RelayBlockLen -> RelayBytes]
\* make([]byte, 1024)
ZeroBlock == [i \in 1..RelayBlockLen |-> ZeroByte]

Cancelled == closing # "no"

\* g.err.Set(e) of the rover, whose window is a single outcome.
Set(e) == err' = LastErrorSet(err, e)

\* i2c.NewI2C: the handle or nil.
Opened(e) == IF e = NoErr THEN "open" ELSE "nil"
\* Close on a handle: its outcome and the handle's state afterwards.
CloseOutcomes(h) == IF h = "open" THEN {NoErr, errI2CClose} ELSE {errAlreadyClosed}
AfterClose(h, e) == IF e = NoErr THEN "closed" ELSE IF h = "open" THEN "closeFailed" ELSE h

RelayExits == {"exitCancelled", "exitReadFailed", "exitCloseFailed", "exitPanic"}
StartupFailed == {"initFailed", "initPanic"}

\* The loop "for _, b := range buf { if b != 255 { append } }".
RECURSIVE StripFillFrom(_, _)
StripFillFrom(block, i) ==
    IF i > Len(block) THEN <<>>
    ELSE IF block[i] # Fill THEN <<block[i]>> \o StripFillFrom(block, i + 1)
    ELSE StripFillFrom(block, i + 1)
StripNothing(block) == block
StripFill(block) == StripFillFrom(block, 1)

relayRest0 == <<comp, lastposition, data, pc, closing, outcomes, everDegraded, framerVars, validateVars, mu,
              serialVars>>
relayRest == <<relayRest0, initLog>>

\* initializeI2C: open the handle; a failure is recorded and the nil handle
\* is used all the same.
InitOpen(e) ==
    /\ rpc = "initOpen"
    /\ i2cBus' = Opened(e)
    /\ IF e # NoErr THEN Set(e) ELSE UNCHANGED err
    /\ rpc' = "initWrite"
    /\ ret' = NoRet
    /\ UNCHANGED <<relayRest, cpc, readI2c, writeI2c, buf, readOk, wrote, ioFailed, closeErr>>

\* initializeI2C: the three PMTK commands.  A failed baud-rate command is only
\* logged; a failed second or third command returns the error with the handle
\* still open, and startGPSNMEA records it: construction fails.
InitWriteBaudFatal(e251, e314, e220) ==
    /\ rpc = "initWrite"
    /\ IF i2cBus = "nil"
       THEN rpc' = "initPanic" /\ UNCHANGED <<err, initLog>>
       ELSE IF e251 # NoErr
            THEN rpc' = "initFailed" /\ Set(e251) /\ initLog' = <<e251>>
            ELSE IF e314 # NoErr
                 THEN rpc' = "initFailed" /\ Set(e314) /\ initLog' = <<e251, e314>>
                 ELSE IF e220 # NoErr
                      THEN rpc' = "initFailed" /\ Set(e220) /\ initLog' = <<e251, e314, e220>>
                      ELSE rpc' = "initClose" /\ UNCHANGED err
                           /\ initLog' = <<e251, e314, e220>>
    /\ ret' = NoRet
    /\ UNCHANGED <<relayRest0, cpc, handleVars, buf, readOk, wrote, ioFailed, closeErr>>
InitWrite(e251, e314, e220) ==
    /\ rpc = "initWrite"
    /\ IF i2cBus = "nil"
       THEN rpc' = "initPanic" /\ UNCHANGED <<err, initLog>>
       ELSE IF e314 # NoErr
            THEN rpc' = "initFailed" /\ Set(e314) /\ initLog' = <<e251, e314>>
            ELSE IF e220 # NoErr
                 THEN rpc' = "initFailed" /\ Set(e220) /\ initLog' = <<e251, e314, e220>>
                 ELSE rpc' = "initClose" /\ UNCHANGED err
                      /\ initLog' = <<e251, e314, e220>>
    /\ ret' = NoRet
    /\ UNCHANGED <<relayRest0, cpc, handleVars, buf, readOk, wrote, ioFailed, closeErr>>

\* initializeI2C: close the handle; on success start() launches the relay.
InitClose(e) ==
    /\ rpc = "initClose"
    /\ e \in CloseOutcomes(i2cBus)
    /\ i2cBus' = AfterClose(i2cBus, e)
    /\ IF e # NoErr
       THEN rpc' = "initFailed" /\ Set(e)
       ELSE rpc' = "start" /\ UNCHANGED err
    /\ initLog' = Append(initLog, e)
    /\ ret' = NoRet
    /\ UNCHANGED <<relayRest0, cpc, readI2c, writeI2c, buf, readOk, wrote, ioFailed, closeErr>>

\* receiveAndWriteI2C, before the loop: return if cancelled.
RelayStart ==
    /\ rpc = "start"
    /\ rpc' = IF Cancelled THEN "exitCancelled"
              ELSE IF comp = "gpsrtki2c" THEN "top" ELSE "preOpen"
    /\ ret' = NoRet
    /\ UNCHANGED <<relayRest, err, cpc, handleVars, buf, readOk, wrote, ioFailed, closeErr>>

\* Top of the relay loop.  The loop condition "err == nil" reads the outer
\* err, which the body never assigns (the body declares its own err): only
\* the select on cancelCtx.Done() and the returns in the body end the loop.
RelayTop ==
    /\ rpc = "top"
    /\ rpc' = IF Cancelled THEN "exitCancelled"
              ELSE IF comp = "gpsrtki2c" THEN "openRead" ELSE "sOpen"
    /\ buf' = ZeroBlock
    /\ readOk' = FALSE
    /\ wrote' = <<>>
    /\ ret' = NoRet
    /\ UNCHANGED <<relayRest, err, cpc, handleVars, ioFailed, closeErr>>

\* part_006: g.readI2c, err = i2c.NewI2C(g.readAddr, g.bus); g.err.Set(err)
RelayOpenRead(e) ==
    /\ rpc = "openRead"
    /\ readI2c' = Opened(e)
    /\ Set(e)
    /\ rpc' = "openWrite"
    /\ ret' = NoRet
    /\ UNCHANGED <<relayRest, cpc, writeI2c, i2cBus, buf, readOk, wrote, ioFailed, closeErr>>

\* part_006: g.writeI2c, err = i2c.NewI2C(g.writeAddr, g.bus); g.err.Set(err)
RelayOpenWrite(e) ==
    /\ rpc = "openWrite"
    /\ writeI2c' = Opened(e)
    /\ Set(e)
    /\ rpc' = "read"
    /\ ret' = NoRet
    /\ UNCHANGED <<relayRest, cpc, readI2c, i2cBus, buf, readOk, wrote, ioFailed, closeErr>>

\* What a read on handle h can return.
ReadOutcomes(h) == IF h = "open" THEN {NoErr, errI2CRead} ELSE {errAlreadyClosed}

\* part_006: _, err = g.readI2c.ReadBytes(buf); g.err.Set(err); a failure is
\* logged and the iteration goes on with the buffer as it is.
RelayRead(e, block) ==
    /\ rpc = "read"
    /\ IF readI2c = "nil"
       THEN /\ rpc' = "exitPanic"
            /\ UNCHANGED <<err, buf, readOk, ioFailed>>
       ELSE /\ e \in ReadOutcomes(readI2c)
            /\ buf' = IF e = NoErr THEN block ELSE buf
            /\ readOk' = (e = NoErr)
            /\ Set(e)
            /\ ioFailed' = (ioFailed \/ e # NoErr)
            /\ rpc' = "write"
    /\ ret' = NoRet
    /\ UNCHANGED <<relayRest, cpc, handleVars, wrote, closeErr>>

\* part_006: strip the 0xFF bytes and write what is left, if anything.
RelayWrite(e) ==
    /\ rpc = "write"
    /\ LET rctmData == StripFill(buf)
       IN  IF Len(rctmData) = 0
           THEN /\ rpc' = "closeRead"
                /\ UNCHANGED <<err, wrote, ioFailed>>
           ELSE /\ wrote' = Append(wrote, rctmData)
                /\ IF writeI2c = "nil"
                   THEN /\ rpc' = "exitPanic"
                        /\ UNCHANGED <<err, ioFailed>>
                   ELSE /\ Set(e)
                        /\ ioFailed' = (ioFailed \/ e # NoErr)
                        /\ rpc' = "closeRead"
    /\ ret' = NoRet
    /\ UNCHANGED <<relayRest, cpc, handleVars, buf, readOk, closeErr>>

\* part_006: err = g.readI2c.Close(); g.err.Set(err); a failure returns.
RelayCloseRead(e) ==
    /\ rpc = "closeRead"
    /\ IF readI2c = "nil"
       THEN /\ rpc' = "exitPanic"
            /\ UNCHANGED <<err, readI2c>>
       ELSE /\ e \in CloseOutcomes(readI2c)
            /\ readI2c' = AfterClose(readI2c, e)
            /\ Set(e)
            /\ rpc' = IF e # NoErr THEN "exitCloseFailed" ELSE "closeWrite"
    /\ ret' = NoRet
    /\ UNCHANGED <<relayRest, cpc, writeI2c, i2cBus, buf, readOk, wrote, ioFailed, closeErr>>

\* part_006: err = g.writeI2c.Close(); g.err.Set(err); a failure returns.
RelayCloseWrite(e) ==
    /\ rpc = "closeWrite"
    /\ IF writeI2c = "nil"
       THEN /\ rpc' = "exitPanic"
            /\ UNCHANGED <<err, writeI2c>>
       ELSE /\ e \in CloseOutcomes(writeI2c)
            /\ writeI2c' = AfterClose(writeI2c, e)
            /\ Set(e)
            /\ rpc' = IF e # NoErr THEN "exitCloseFailed" ELSE "top"
    /\ ret' = NoRet
    /\ UNCHANGED <<relayRest, cpc, readI2c, i2cBus, buf, readOk, wrote, ioFailed, closeErr>>

\* gps_rtk_i2c_no_network.go: i2cBus, err := i2c.NewI2C(g.addr, g.bus);
\* g.err.Set(err), before the loop and in every iteration.
SingleOpen(e) ==
    /\ rpc \in {"preOpen", "sOpen"}
    /\ i2cBus' = Opened(e)
    /\ Set(e)
    /\ rpc' = IF rpc = "preOpen" THEN "preRead" ELSE "sRead"
    /\ ret' = NoRet
    /\ UNCHANGED <<relayRest, cpc, readI2c, writeI2c, buf, readOk, wrote, ioFailed, closeErr>>

\* gps_rtk_i2c_no_network.go: _, err = i2cBus.ReadBytes(buf).  Before the
\* loop a failure is only logged; in the loop it is recorded and returns,
\* past the Close.
SingleRead(e, block) ==
    /\ rpc \in {"preRead", "sRead"}
    /\ IF i2cBus = "nil"
       THEN /\ rpc' = "exitPanic"
            /\ UNCHANGED <<err, buf, readOk, ioFailed>>
       ELSE /\ e \in ReadOutcomes(i2cBus)
            /\ buf' = IF e = NoErr THEN block ELSE buf
            /\ readOk' = (e = NoErr)
            /\ ioFailed' = (ioFailed \/ e # NoErr)
            /\ IF rpc = "preRead"
               THEN rpc' = "preClose" /\ UNCHANGED err
               ELSE /\ Set(e)
                    /\ rpc' = IF e # NoErr THEN "exitReadFailed" ELSE "sClose"
    /\ ret' = NoRet
    /\ UNCHANGED <<relayRest, cpc, handleVars, wrote, closeErr>>

\* gps_rtk_i2c_no_network.go: err = i2cBus.Close(); g.err.Set(err); a failure
\* returns.
SingleClose(e) ==
    /\ rpc \in {"preClose", "sClose"}
    /\ e \in CloseOutcomes(i2cBus)
    /\ i2cBus' = AfterClose(i2cBus, e)
    /\ Set(e)
    /\ rpc' = IF e # NoErr THEN "exitCloseFailed" ELSE "top"
    /\ ret' = NoRet
    /\ UNCHANGED <<relayRest, cpc, readI2c, writeI2c, buf, readOk, wrote, ioFailed, closeErr>>

\* The component exists once start-up has launched the relay.
Constructed == rpc \notin {"off", "initOpen", "initWrite", "initClose"} \cup StartupFailed

\* Close: g.cancelFunc().
RoverCloseCancel ==
    /\ Constructed
    /\ cpc = "idle"
    /\ closing' = "cancelled"
    /\ cpc' = "cancelled"
    /\ ret' = NoRet
    /\ UNCHANGED <<comp, err, lastposition, data, pc, outcomes, everDegraded, framerVars, validateVars, mu,
                   serialVars, rpc, handleVars, buf, readOk, wrote, ioFailed, initLog, closeErr>>

\* context.Canceled, and errors.Is(e, context.Canceled).
errCanceled == "context canceled"
IsCanceled(e) == e = errCanceled

\* What Close returns at its end: the tracker's error, unless that error is
\* the cancellation error.
CloseResultUnfiltered(le) == LastErrorGet(le)
CloseResult(le) ==
    LET e == LastErrorGet(le) IN IF e # NoErr /\ ~IsCanceled(e) THEN e ELSE NoErr

\* part_006 Close: g.readI2c.Close(), twice, each failure returned; nothing
\* waits for the tasks.  The field is read while the relay may assign it.
RoverCloseHandle(e) ==
    /\ comp = "gpsrtki2c"
    /\ cpc \in {"cancelled", "closedOnce"}
    /\ IF readI2c = "nil"
       THEN /\ cpc' = "panicked"
            /\ UNCHANGED <<readI2c, closeErr>>
       ELSE /\ e \in CloseOutcomes(readI2c)
            /\ readI2c' = AfterClose(readI2c, e)
            /\ IF e # NoErr
               THEN cpc' = "returned" /\ closeErr' = e
               ELSE IF cpc = "cancelled"
                    THEN cpc' = "closedOnce" /\ UNCHANGED closeErr
                    ELSE cpc' = "returned" /\ closeErr' = CloseResult(err)
    /\ ret' = NoRet
    /\ UNCHANGED <<relayRest, err, rpc, writeI2c, i2cBus, buf, readOk, wrote, ioFailed>>

\* gps_rtk_i2c_no_network.go Close: after the cancel it closes the NMEA
\* sensor and the correction writer, none of them a handle of the relay, and
\* returns the tracker's error.
SingleCloseReturn ==
    /\ comp = "gpsrtki2cSingle"
    /\ cpc = "cancelled"
    /\ cpc' = "returned"
    /\ closeErr' = CloseResult(err)
    /\ ret' = NoRet
    /\ UNCHANGED <<relayRest, err, rpc, handleVars, buf, readOk, wrote, ioFailed>>

InitRelayI2C ==
    /\ comp \in RelayComponents
    /\ err = NewTracker(comp)
    /\ lastposition = NewLastPosition
    /\ data = NewGPSData
    /\ ret = NoRet
    /\ pc = "idle"
    /\ closing = "no"
    /\ outcomes = <<>>
    /\ everDegraded = FALSE
    /\ FramerIdle
    /\ OtherIdle
    /\ SerialIdle
    /\ rpc = (IF comp = "gpsrtki2c" THEN "initOpen" ELSE "start")
    /\ cpc = "idle"
    /\ readI2c = "nil"
    /\ writeI2c = "nil"
    /\ i2cBus = "nil"
    /\ buf = <<>>
    /\ readOk = FALSE
    /\ wrote = <<>>
    /\ ioFailed = FALSE
    /\ initLog = <<>>
    /\ closeErr = NoErr

NextRelayI2C ==
    \/ \E e \in {NoErr, errI2COpen} : InitOpen(e)
    \/ \E e251, e314, e220 \in {NoErr, errI2CWrite} : InitWrite(e251, e314, e220)
    \/ \E e \in {NoErr, errI2CClose} : InitClose(e)
    \/ RelayStart
    \/ RelayTop
    \/ \E e \in {NoErr, errI2COpen} : RelayOpenRead(e)
    \/ \E e \in {NoErr, errI2COpen} : RelayOpenWrite(e)
    \/ \E e \in {NoErr, errI2CRead, errAlreadyClosed}, block \in RelayBlocks : RelayRead(e, block)
    \/ \E e \in {NoErr, errI2CWrite} : RelayWrite(e)
    \/ \E e \in {NoErr, errI2CClose, errAlreadyClosed} : RelayCloseRead(e)
    \/ \E e \in {NoErr, errI2CClose} : RelayCloseWrite(e)
    \/ \E e \in {NoErr, errI2COpen} : SingleOpen(e)
    \/ \E e \in {NoErr, errI2CRead}, block \in RelayBlocks : SingleRead(e, block)
    \/ \E e \in {NoErr, errI2CClose} : SingleClose(e)
    \/ RoverCloseCancel
    \/ \E e \in {NoErr, errI2CClose, errAlreadyClosed} : RoverCloseHandle(e)
    \/ SingleCloseReturn

SpecRelayI2C == InitRelayI2C /\ [][NextRelayI2C]_vars

-----------------------------------------------------------------------------
(* Claims about the I2C handles, the I2C relay and Close, checked under
   SpecRelayI2C *)

\* Start-up or a relay iteration has just ended.
IterationEnded == rpc \in ({"start", "top"} \cup StartupFailed \cup RelayExits)

\* C13: every handle that start-up or a relay iteration opened successfully
\* is closed by the time that start-up or iteration ends, on every path.
C13_OpenedHandlesClosed ==
    IterationEnded => (readI2c # "open" /\ writeI2c # "open" /\ i2cBus # "open")

\* This step of the relay performs a read, or issues a write.
RelayReadsNow == rpc \in {"read", "preRead", "sRead"} /\ rpc' \notin {rpc, "exitPanic"}
RelayWritesNow == Len(wrote') > Len(wrote)

\* C18: once a read or a write of the relay has failed, the relay performs no
\* further read and no further write.
C18_NoIOAfterFailure ==
    [][ioFailed => ~(RelayReadsNow \/ RelayWritesNow)]_vars

NotFill(b) == b # Fill
AfterWrite == rpc \in ({"closeRead", "closeWrite", "top"} \cup RelayExits)

\* C19: in an iteration of the two-address relay whose read succeeded, the
\* bytes handed to the write are exactly the bytes of the block that differ
\* from 0xFF, in their order, and no write is issued when none is left.
C19_WriteIsStrippedBlock ==
    (comp = "gpsrtki2c" /\ readOk /\ AfterWrite)
    => wrote = IF SelectSeq(buf, NotFill) = <<>> THEN <<>>
               ELSE <<SelectSeq(buf, NotFill)>>

C19_Witness ==
    /\ comp = "gpsrtki2c"
    /\ readOk
    /\ rpc = "closeRead"
    /\ \E i \in 1..Len(buf) : buf[i] = Fill
    /\ wrote # <<>>

C19_WitnessNoWrite ==
    /\ comp = "gpsrtki2c"
    /\ readOk
    /\ rpc = "closeRead"
    /\ \A i \in 1..Len(buf) : buf[i] = Fill
    /\ wrote = <<>>

\* C20: Close closes a hardware handle only after every background task of
\* the component has exited.
C20_CloseWaitsForTasks ==
    [][(cpc' # cpc /\ readI2c' # readI2c) => rpc \in RelayExits]_vars

-----------------------------------------------------------------------------
(* The serial rover: correction relay and Close *)

\* rtkSerialNoNetwork of part_008.  The relay reads RTCM3 messages from the
\* correction port through an rtcm3.Scanner and writes the recognized ones,
\* re-encapsulated, to the GPS port through a bufio.Writer.
\* scanner.NextMessage returns a recognized message, an rtcm3.MessageUnknown,
\* or no message with an error.

Msg1005 == 1005
Msg1077 == 1077
Msg4095 == 4095
KnownTypes == {Msg1005, Msg1077}
MsgTypes == KnownTypes \cup {Msg4095}

\* The content of a message after its number.
Content == 7

RECURSIVE SumSeq(_)
SumSeq(s) == IF s = <<>> THEN 0 ELSE Head(s) + SumSeq(Tail(s))

\* The frame check sequence over a payload.
Crc(payload) == SumSeq(payload) % 256

\* A frame on the wire: preamble, length, payload, check sequence.
EncapsulateByteArray(payload) ==
    <<Preamble, Len(payload)>> \o payload \o <<Crc(payload)>>
FramePayload(wire) == SubSeq(wire, 3, Len(wire) - 1)

\* A message is its number and content; the nil message has kind "nil".
NilMsg == [kind |-> "nil", number |-> 0, content |-> <<>>]
DeserializeMessage(payload) ==
    [kind |-> IF Head(payload) \in KnownTypes THEN "known" ELSE "unknown",
     number |-> Head(payload), content |-> Tail(payload)]
SerializeMessage(msg) == <<msg.number>> \o msg.content
EncapsulateMessage(msg) == EncapsulateByteArray(SerializeMessage(msg))

\* The frames the base station sends.
SourceFrames == {EncapsulateByteArray(<<t, Content>>) : t \in MsgTypes}

errSerialOpen == "errSerialOpen"
errScanner == "errScanner"
errPortWrite == "errPortWrite"
errPortClose == "errPortClose"
\* A write through the nil port left by a failed open.
nilPort == "nilPort"

\* What scanner.NextMessage can return.
NextMessageOutcomes ==
    {[msg |-> DeserializeMessage(FramePayload(f)), err |-> NoErr, wire |-> f] : f \in SourceFrames}
    \cup {[msg |-> NilMsg, err |-> errScanner, wire |-> <<>>]}

\* Size of the bufio.Writer's buffer (4096 in the Go library) and the number
\* of recognized frames a run reads.
BufioSize == 8
MaxFrames == 3

\* (*bufio.Writer).Write(p) on writer state w = [buf, err, out, failed]: while
\* p does not fit, fill the buffer and flush it to the port (or write p
\* straight to the port when the buffer is empty); then buffer the rest.  A
\* failed port write sticks in w.err and every later Write returns it.
RECURSIVE BufioWrite(_, _, _)
BufioWrite(w, p, portErr) ==
    IF w.err # NoErr THEN w
    ELSE IF Len(p) > BufioSize - Len(w.buf)
         THEN IF Len(w.buf) = 0
              THEN IF portErr # NoErr
                   THEN [w EXCEPT !.err = portErr, !.failed = TRUE]
                   ELSE [w EXCEPT !.out = w.out \o p]
              ELSE LET n == BufioSize - Len(w.buf)
                       full == w.buf \o SubSeq(p, 1, n)
                   IN  IF portErr # NoErr
                       THEN [w EXCEPT !.buf = full, !.err = portErr, !.failed = TRUE]
                       ELSE BufioWrite([w EXCEPT !.buf = <<>>, !.out = w.out \o full],
                                       SubSeq(p, n + 1, Len(p)), portErr)
         ELSE [w EXCEPT !.buf = w.buf \o p]

\* What a write to the port can return.
PortWriteOutcomes(port) == IF port = "nil" THEN {nilPort} ELSE {NoErr, errPortWrite}

SerialExits == {"exitCancelled", "exitWriteFailed", "exitPanic"}

serialRest == <<comp, lastposition, data, pc, outcomes, everDegraded, framerVars, validateVars, mu, relayVars>>

\* receiveAndWriteSerial, first lines: return if cancelled.
SerialStart ==
    /\ spc = "start"
    /\ spc' = IF Cancelled THEN "exitCancelled" ELSE "openReader"
    /\ sstep' = NoStep
    /\ UNCHANGED <<serialRest, err, ret, closing, closeVars, correctionReader,
                   correctionWriter, scannerGen, bufw, werr, dest, readFrames>>

\* openCorrectionReader / openNMEAPath: nil if cancelled; else open the port,
\* a failure recorded and nil returned.
OpenPort(e) == IF Cancelled \/ e # NoErr THEN "nil" ELSE "open"

\* reader := g.openCorrectionReader()
SerialOpenReader(e) ==
    /\ spc = "openReader"
    /\ correctionReader' = OpenPort(e)
    /\ IF ~Cancelled /\ e # NoErr THEN Set(e) ELSE UNCHANGED err
    /\ spc' = "openWriter"
    /\ sstep' = NoStep
    /\ UNCHANGED <<serialRest, ret, closing, closeVars, correctionWriter, scannerGen,
                   bufw, werr, dest, readFrames>>

\* g.correctionWriter = g.openNMEAPath(); the bufio.Writer and the first
\* scanner are created whatever the opens returned.
SerialOpenWriter(e) ==
    /\ spc = "openWriter"
    /\ correctionWriter' = OpenPort(e)
    /\ IF ~Cancelled /\ e # NoErr THEN Set(e) ELSE UNCHANGED err
    /\ scannerGen' = 1
    /\ spc' = "top"
    /\ sstep' = NoStep
    /\ UNCHANGED <<serialRest, ret, closing, closeVars, correctionReader, bufw, werr,
                   dest, readFrames>>

\* switch msg.(type): rtcm3.MessageUnknown continues, every other value of
\* msg, nil included, takes the default branch.
TakesDefaultAlways(msg) == TRUE
TakesDefault(msg) == msg.kind # "unknown"

\* One iteration of the relay loop on what NextMessage returned.
SerialStep(o, portErr) ==
    /\ spc = "top"
    /\ IF Cancelled
       THEN /\ spc' = "exitCancelled"
            /\ sstep' = NoStep
            /\ UNCHANGED <<err, scannerGen, bufw, werr, dest, readFrames>>
       ELSE IF correctionReader = "nil"
       THEN /\ spc' = "exitPanic"
            /\ sstep' = NoStep
            /\ UNCHANGED <<err, scannerGen, bufw, werr, dest, readFrames>>
       ELSE /\ o \in NextMessageOutcomes
            /\ portErr \in PortWriteOutcomes(correctionWriter)
            /\ o.msg.kind = "known" => Len(readFrames) < MaxFrames
            /\ readFrames' = IF o.msg.kind = "known" THEN Append(readFrames, o.wire)
                             ELSE readFrames
            /\ LET seen == [kind |-> o.msg.kind, bufwBefore |-> bufw, destBefore |-> dest,
                            errBefore |-> LastErrorGet(err), genBefore |-> scannerGen,
                            portWriteFailed |-> FALSE]
               IN  IF ~TakesDefault(o.msg)
                   THEN /\ spc' = "top"
                        /\ sstep' = seen
                        /\ UNCHANGED <<err, scannerGen, bufw, werr, dest>>
                   ELSE IF o.msg.kind = "nil"
                   THEN \* rtcm3.EncapsulateMessage(nil)
                        /\ spc' = "exitPanic"
                        /\ sstep' = seen
                        /\ UNCHANGED <<err, scannerGen, bufw, werr, dest>>
                   ELSE LET w == BufioWrite([buf |-> bufw, err |-> werr, out |-> <<>>,
                                             failed |-> FALSE],
                                            EncapsulateMessage(o.msg), portErr)
                        IN  /\ bufw' = w.buf
                            /\ werr' = w.err
                            /\ dest' = dest \o w.out
                            /\ sstep' = [seen EXCEPT !.portWriteFailed = w.failed]
                            /\ UNCHANGED scannerGen
                            /\ IF w.failed /\ portErr = nilPort
                               THEN spc' = "exitPanic" /\ UNCHANGED err
                               ELSE IF o.err # NoErr
                               THEN spc' = "exitWriteFailed" /\ Set(o.err)
                               ELSE spc' = "top" /\ UNCHANGED err
    /\ UNCHANGED <<serialRest, ret, closing, closeVars, correctionReader, correctionWriter>>

\* Close: g.cancelFunc()
SerialCloseCancel ==
    /\ spc # "off"
    /\ cpc = "idle"
    /\ closing' = "cancelled"
    /\ cpc' = "cancelled"
    /\ sstep' = NoStep
    /\ UNCHANGED <<serialRest, err, ret, closeErr, spc, correctionReader, correctionWriter,
                   scannerGen, bufw, werr, dest, readFrames>>

ClosePortOutcomes == {NoErr, errPortClose}

\* Close after g.activeBackgroundWorkers.Wait(): close the reader under the
\* mutex, close the writer, return the tracker's error.  When closing the
\* reader fails the mutex is unlocked in the error branch and again after it.
SerialCloseAfterWait(eR, eW) ==
    /\ cpc = "cancelled"
    /\ spc \in SerialExits
    /\ correctionReader' = "nil"
    /\ IF correctionReader # "nil" /\ eR # NoErr
       THEN /\ Set(eR)
            /\ cpc' = "crashed"
            /\ UNCHANGED <<correctionWriter, closeErr>>
       ELSE /\ correctionWriter' = "nil"
            /\ IF correctionWriter # "nil" /\ eW # NoErr
               THEN Set(eW) /\ closeErr' = CloseResult(LastErrorSet(err, eW))
               ELSE UNCHANGED err /\ closeErr' = CloseResult(err)
            /\ cpc' = "returned"
    /\ sstep' = NoStep
    /\ UNCHANGED <<serialRest, ret, closing, spc, scannerGen, bufw, werr, dest, readFrames>>

InitRelaySerial ==
    /\ comp = "gpsrtkserial"
    /\ err = NewTracker(comp)
    /\ lastposition = NewLastPosition
    /\ data = NewGPSData
    /\ ret = NoRet
    /\ pc = "idle"
    /\ closing = "no"
    /\ outcomes = <<>>
    /\ everDegraded = FALSE
    /\ FramerIdle
    /\ OtherIdle
    /\ RelayIdle
    /\ CloseIdle
    /\ spc = "start"
    /\ correctionReader = "nil"
    /\ correctionWriter = "nil"
    /\ scannerGen = 0
    /\ bufw = <<>>
    /\ werr = NoErr
    /\ dest = <<>>
    /\ readFrames = <<>>
    /\ sstep = NoStep

NextRelaySerial ==
    \/ SerialStart
    \/ \E e \in {NoErr, errSerialOpen} : SerialOpenReader(e)
    \/ \E e \in {NoErr, errSerialOpen} : SerialOpenWriter(e)
    \/ \E o \in NextMessageOutcomes, portErr \in {NoErr, errPortWrite, nilPort} :
          SerialStep(o, portErr)
    \/ SerialCloseCancel
    \/ \E eR, eW \in ClosePortOutcomes : SerialCloseAfterWait(eR, eW)

SpecRelaySerial == InitRelaySerial /\ [][NextRelaySerial]_vars

-----------------------------------------------------------------------------
(* Claims about the serial rover's correction relay, checked under
   SpecRelaySerial *)

RECURSIVE Concat(_)
Concat(frames) == IF frames = <<>> THEN <<>> ELSE Head(frames) \o Concat(Tail(frames))

\* Everything the relay has handed to the destination, delivered or buffered.
Forwarded == dest \o bufw

\* C14: a message of unknown type is never written to the destination, does
\* not end the relay and records no error: no byte of an unknown-type frame
\* is ever on the way to the destination.
C14_UnknownNeverForwarded ==
    /\ \A i \in 1..Len(Forwarded) : Forwarded[i] # Msg4095
    /\ sstep.kind = "unknown"
       => /\ spc = "top"
          /\ bufw = sstep.bufwBefore
          /\ dest = sstep.destBefore
          /\ LastErrorGet(err) = sstep.errBefore

C14_Witness ==
    /\ sstep.kind = "unknown"
    /\ readFrames # <<>>
    /\ Forwarded # <<>>

\* C15: every recognized frame read from the source is delivered to the
\* destination port, byte-identical and in the order read, and none is lost
\* when the relay stops: when the relay has stopped on cancellation the port
\* has received all of them.
C15_ReadFramesDelivered ==
    spc = "exitCancelled" => dest = Concat(readFrames)

\* C16: when a write to the destination fails, the relay records the write
\* error in the tracker and terminates.
C16_WriteFailureEndsRelay ==
    (sstep.portWriteFailed /\ werr = errPortWrite)
    => (spc \in SerialExits /\ LastErrorGet(err) = errPortWrite)

\* C17: when the framer returns an error and no message, the relay makes a
\* fresh framer and keeps running, writes nothing and records no error.
C17_FramingErrorResyncs ==
    sstep.kind = "nil"
    => /\ spc = "top"
       /\ scannerGen = sstep.genBefore + 1
       /\ bufw = sstep.bufwBefore
       /\ dest = sstep.destBefore
       /\ LastErrorGet(err) = sstep.errBefore

\* ---------------------------------------------------------------------------
\* C21: Close of the rover tolerates absent handles: on nil handles, or on a
\* handle a first close has already closed, it does not panic, returns no
\* error for that handle, and leaves the handle fields nil.
\* part_006 Close calls g.readI2c.Close() twice, with no nil check and without
\* ever assigning nil to the fields.
C21_CloseToleratesAbsentHandles ==
    /\ cpc # "panicked"
    /\ cpc = "returned" => /\ closeErr # errAlreadyClosed
                           /\ readI2c = "nil"
                           /\ writeI2c = "nil"

-----------------------------------------------------------------------------
(* Close and the recorded error.  One component with one background task
   that records the outcomes of its bus or port calls; Close cancels, closes
   what it owns, waits for the task and reports the tracker's error. *)

CloseComponents == {"nmeai2c", "serialSource", "i2cSource"}

\* Number of g.err.Set calls a task makes before it stops recording.
MaxRecorded == 5

\* The tracker each constructor creates.
SourceErrSize == 1
SourceErrThreshold == 1
NewCloseTracker(c) ==
    IF c = "serialSource" THEN NewLastError(SourceErrSize, SourceErrThreshold)
    ELSE NewLastError(I2CErrSize, I2CErrThreshold)

\* The error values a bus or port call hands to the task.
TaskErrors == {NoErr, errI2CRead, errCanceled}

\* The components whose Close closes a stream before it waits.
ClosesBeforeWait == {"serialSource", "i2cSource"}

\* One g.err.Set(err) of the background task.  The serial source records
\* only a failure of scanner.NextMessage and returns; the I2C tasks record
\* every outcome and return on some failures.
TaskRecords(e, stop) ==
    /\ pc = "running"
    /\ Len(outcomes) < MaxRecorded
    /\ stop => e # NoErr
    /\ comp = "serialSource" => stop
    /\ err' = LastErrorSet(err, e)
    /\ outcomes' = Append(outcomes, e)
    /\ pc' = IF stop THEN "exited" ELSE "running"
    /\ ret' = NoRet
    /\ UNCHANGED <<ext, comp, lastposition, data, closing, everDegraded>>

\* case <-cancelCtx.Done(): return
TaskSeesCancel ==
    /\ pc = "running"
    /\ Cancelled
    /\ pc' = "exited"
    /\ ret' = NoRet
    /\ UNCHANGED <<ext, comp, err, lastposition, data, closing, outcomes, everDegraded>>

closeRest == <<comp, err, lastposition, data, pc, outcomes, everDegraded, framerVars, validateVars, mu,
               relayVars, spc, correctionWriter, scannerGen, bufw, werr, dest,
               readFrames, sstep>>

\* Close up to the Wait: cancel, and in the sources close the stream, whose
\* failure is returned at once.
CloseBegins(e) ==
    /\ cpc = "idle"
    /\ closing' = "cancelled"
    /\ IF comp \in ClosesBeforeWait /\ correctionReader # "nil"
       THEN IF e # NoErr
            THEN cpc' = "returned" /\ closeErr' = e /\ UNCHANGED correctionReader
            ELSE cpc' = "cancelled" /\ correctionReader' = "nil" /\ UNCHANGED closeErr
       ELSE e = NoErr /\ cpc' = "cancelled" /\ UNCHANGED <<correctionReader, closeErr>>
    /\ ret' = NoRet
    /\ UNCHANGED closeRest

\* Close after the Wait.
CloseReturnsTracker ==
    /\ cpc = "cancelled"
    /\ pc = "exited"
    /\ cpc' = "returned"
    /\ closeErr' = IF comp = "i2cSource" THEN CloseResult(err)
                   ELSE CloseResultUnfiltered(err)
    /\ ret' = NoRet
    /\ UNCHANGED <<closeRest, closing, correctionReader>>

InitShutdown ==
    /\ comp \in CloseComponents
    /\ err = NewCloseTracker(comp)
    /\ lastposition = NewLastPosition
    /\ data = NewGPSData
    /\ ret = NoRet
    /\ pc = "running"
    /\ closing = "no"
    /\ outcomes = <<>>
    /\ everDegraded = FALSE
    /\ FramerIdle
    /\ OtherIdle
    /\ RelayIdle
    /\ CloseIdle
    /\ spc = "off"
    /\ correctionReader = (IF comp \in ClosesBeforeWait THEN "open" ELSE "nil")
    /\ correctionWriter = "nil"
    /\ scannerGen = 0
    /\ bufw = <<>>
    /\ werr = "nil"
    /\ dest = <<>>
    /\ readFrames = <<>>
    /\ sstep = NoStep

NextShutdown ==
    \/ \E e \in TaskErrors, stop \in BOOLEAN : TaskRecords(e, stop)
    \/ TaskSeesCancel
    \/ \E e \in ClosePortOutcomes : CloseBegins(e)
    \/ CloseReturnsTracker

SpecShutdown == InitShutdown /\ [][NextShutdown]_vars

\* The recorded failures are all the cancellation error, and there is one.
OnlyCancellationRecorded ==
    /\ \E i \in 1..Len(outcomes) : outcomes[i] = errCanceled
    /\ \A i \in 1..Len(outcomes) : outcomes[i] \in {NoErr, errCanceled}

C23_UnsupportedAlwaysUnimplemented ==
    ret.op \in UnsupportedMethods => ret.err = ErrMethodUnimplemented[ret.op]

\* ---------------------------------------------------------------------------
\* C24: when the tracker reports no error, LinearVelocity returns a nil
\* error and the vector (0, speed, 0), speed being the snapshot's speed over
\* ground.
C24_LinearVelocityAlongY ==
    (ret.op = "LinearVelocity" /\ LastErrorGet(err) = NoErr) =>
        /\ ret.err = NoErr
        /\ ret.val = <<0, data.Speed, 0>>

\* The rover has answered a LinearVelocity query with a non-zero speed.
C24_Witness ==
    /\ comp = "gpsrtki2c"
    /\ ret.op = "LinearVelocity"
    /\ LastErrorGet(err) = NoErr
    /\ data.Speed # 0
    /\ ret.val = <<0, data.Speed, 0>>

\* ---------------------------------------------------------------------------
\* The handles the rover's tasks hold open on the bus.
OpenHandles == {i \in 1..3 : <<readI2c, writeI2c, i2cBus>>[i] = "open"}

\* C27: at every instant at most one handle is open on the I2C bus of the
\* rover: a lease is released before the next one is opened, across the
\* read-address and write-address roles.
C27_OneLeaseAtATime == Cardinality(OpenHandles) <= 1

-----------------------------------------------------------------------------
(* Validate of the correction-station configs (serial: part_010, I2C:
   part_009).  required_accuracy is a float64: the model counts it in steps
   of 1/AccPerUnit. *)

AccPerUnit == 2
AccuracyMax == 5
MaxField == 1

Accuracies == (0 - AccPerUnit)..((AccuracyMax + 1) * AccPerUnit)

errRequiredAccuracy == "errRequiredAccuracy"
\* utils.NewConfigValidationFieldRequiredError(path, field)
FieldRequired ==
    [required_accuracy |-> "required: required_accuracy",
     required_time |-> "required: required_time",
     serial_path |-> "required: serial_path",
     i2c_bus |-> "required: i2c_bus",
     i2c_addr |-> "required: i2c_addr"]

SerialConfigs ==
    {[kind |-> "serial", RequiredAccuracy |-> a, RequiredTime |-> t, SerialPath |-> p,
      I2CBus |-> 0, I2CAddr |-> 0] :
        a \in Accuracies, t \in 0..MaxField, p \in {"", "path"}}
I2CConfigs ==
    {[kind |-> "i2c", RequiredAccuracy |-> a, RequiredTime |-> t, SerialPath |-> "",
      I2CBus |-> b, I2CAddr |-> d] :
        a \in Accuracies, t \in 0..MaxField, b \in 0..MaxField, d \in 0..MaxField}
Configs == SerialConfigs \cup I2CConfigs

\* The checks both Validate methods start with.
ValidateAccuracyAndTime(c) ==
    IF c.RequiredAccuracy = 0 THEN FieldRequired.required_accuracy
    ELSE IF c.RequiredAccuracy < 0 \/ c.RequiredAccuracy > AccuracyMax * AccPerUnit
         THEN errRequiredAccuracy
    ELSE IF c.RequiredTime = 0 THEN FieldRequired.required_time
    ELSE NoErr

\* The error Validate returns; its dependency list is empty on every path.
ValidateErr(c) ==
    IF ValidateAccuracyAndTime(c) # NoErr THEN ValidateAccuracyAndTime(c)
    ELSE IF c.kind = "serial"
         THEN IF c.SerialPath = "" THEN FieldRequired.serial_path ELSE NoErr
    ELSE IF c.I2CBus = 0 THEN FieldRequired.i2c_bus
    ELSE IF c.I2CAddr = 0 THEN FieldRequired.i2c_addr
    ELSE NoErr

Validate ==
    /\ ~vres.called
    /\ vres' = [called |-> TRUE, err |-> ValidateErr(cfg), deps |-> <<>>]
    /\ UNCHANGED <<comp, err, lastposition, data, ret, pc, closing, outcomes, everDegraded,
                   framerVars, relayVars, closeVars, serialVars, mu, cfg, chkData, chkCmd, stn, ports>>

InitValidate ==
    /\ comp = "station"
    /\ err = NewLastError(SourceErrSize, SourceErrThreshold)
    /\ lastposition = NewLastPosition
    /\ data = NewGPSData
    /\ ret = NoRet
    /\ pc = "idle"
    /\ closing = "no"
    /\ outcomes = <<>>
    /\ everDegraded = FALSE
    /\ FramerIdle
    /\ RelayIdle
    /\ CloseIdle
    /\ SerialIdle
    /\ mu = "free"
    /\ cfg \in Configs
    /\ vres = NoValidation
    /\ chkData = <<>>
    /\ chkCmd = <<>>
    /\ stn = NoStation
    /\ ports = NoPorts

NextValidate == Validate

SpecValidate == InitValidate /\ [][NextValidate]_vars

\* The other fields of the config are valid.
OtherFieldsValid(c) ==
    /\ c.RequiredTime # 0
    /\ c.kind = "serial" => c.SerialPath # ""
    /\ c.kind = "i2c" => (c.I2CBus # 0 /\ c.I2CAddr # 0)

InAccuracyRange(c) ==
    /\ c.RequiredAccuracy >= 1 * AccPerUnit
    /\ c.RequiredAccuracy <= AccuracyMax * AccPerUnit

\* C25: Validate rejects every required_accuracy outside [1,5] and accepts
\* one inside [1,5] when the other fields are valid.
C25_AccuracyRange ==
    vres.called =>
        /\ ~InAccuracyRange(cfg) => vres.err # NoErr
        /\ (InAccuracyRange(cfg) /\ OtherFieldsValid(cfg)) => vres.err = NoErr

\* C26: a serial config with an empty serial_path gets the required-field
\* error naming serial_path and an empty dependency list, whatever its other
\* fields hold.
C26_EmptySerialPath ==
    (vres.called /\ cfg.kind = "serial" /\ cfg.SerialPath = "") =>
        /\ vres.err = FieldRequired.serial_path
        /\ vres.deps = <<>>

\* ---------------------------------------------------------------------------
\* The positions of the ingest task at which a bus open, read or close is in
\* progress.
IngestIO == {"open", "opened", "readOk", "readFailed"}

\* C29: while a bus open, read or close of the ingest task is in progress the
\* task does not hold the snapshot's write lock: the lock is held only around
\* the parse-and-update of one sentence.
C29_NoLockAcrossIO == pc \in IngestIO => mu # "ingest"

\* The task has applied a sentence under the lock and is reading the bus
\* again.
C29_Witness == pc = "opened" /\ data.Speed # 0 /\ mu = "free"

\* ---------------------------------------------------------------------------
\* The outcome the ingest task has recorded last.
LastRecorded(le) == le.errs[Len(le.errs)]

\* C28 as stated: when the read of a lease succeeded, the task goes on to
\* frame the bytes read after the close, whether the close failed or not.
C28_CloseFailureKeepsBytes ==
    [][(pc = "readOk" /\ pc' # pc) => pc' = "parse"]_vars

\* C28, amended: when the read of a lease succeeded and the close of the
\* handle fails, the close error is recorded and the ingest task ends: the
\* bytes read in that lease are not framed and the snapshot stays as it was,
\* then and ever after.  When the close succeeds the bytes are framed.
C28_CloseFailureEndsIngest ==
    [][/\ (pc = "readOk" /\ pc' # pc) =>
            IF LastRecorded(err') # NoErr
            THEN /\ LastRecorded(err') = errI2CClose
                 /\ pc' = "exitCloseFailed"
                 /\ data' = data
            ELSE pc' = "parse"
       /\ pc = "exitCloseFailed" => (pc' = "exitCloseFailed" /\ data' = data)]_vars

\* The task has ended on a failed close that followed a successful read.
C28_Witness ==
    /\ pc = "exitCloseFailed"
    /\ Len(outcomes) >= 2
    /\ outcomes[Len(outcomes)] = errI2CClose
    /\ outcomes[Len(outcomes) - 1] = NoErr

\* ---------------------------------------------------------------------------
\* C30: the ingest task checks the cancellation token at the top of every
\* iteration: once the token is cancelled the task starts no new lease (it
\* only finishes the open-read-close-frame sequence in flight), and it exits.
C30_CancelStopsIngest ==
    /\ [][(closing # "no" /\ pc' = "open") => pc = "open"]_vars
    /\ (closing # "no") ~> (pc \in Exits)

\* The task has seen the cancellation at the top of its loop and has left,
\* after it had applied a sentence.
C30_Witness == closing # "no" /\ pc = "exitCancelled" /\ data.Speed # 0

-----------------------------------------------------------------------------
(* The PMTK checksum helper (gps_rtk_i2c_no_network.go addChk, checksum). *)

Star == 42
MaxPayload == 3
\* Payload bytes: NUL, '1', 'P' and 0xFF.
ChkBytes == {0, 49, 80, 255}

RECURSIVE SeqsUpTo(_, _)
SeqsUpTo(S, n) ==
    IF n = 0 THEN {<<>>}
    ELSE LET shorter == SeqsUpTo(S, n - 1)
         IN  shorter \cup {Append(q, b) : q \in shorter, b \in S}

\* a ^ b on bytes, bit by bit.
RECURSIVE XorBits(_, _, _)
XorBits(a, b, bits) ==
    IF bits = 0 THEN 0
    ELSE ((a + b) % 2) + 2 * XorBits(a \div 2, b \div 2, bits - 1)
Xor(a, b) == XorBits(a, b, 8)

\* checksum: chk ^= b over the payload.
RECURSIVE checksum(_)
checksum(d) == IF d = <<>> THEN 0 ELSE Xor(checksum(SubSeq(d, 1, Len(d) - 1)), d[Len(d)])

\* addChk: '$', the payload, '*', and the checksum appended as one byte.
addChk(d) == <<Dollar>> \o d \o <<Star, checksum(d)>>

AddChk ==
    /\ chkCmd = <<>>
    /\ chkCmd' = addChk(chkData)
    /\ UNCHANGED <<comp, err, lastposition, data, ret, pc, closing, outcomes, everDegraded,
                   framerVars, relayVars, closeVars, serialVars, mu, cfg, vres, chkData, stn, ports>>

InitChk ==
    /\ comp = "gpsrtki2cSingle"
    /\ err = NewRoverLastError
    /\ lastposition = NewLastPosition
    /\ data = NewGPSData
    /\ ret = NoRet
    /\ pc = "idle"
    /\ closing = "no"
    /\ outcomes = <<>>
    /\ everDegraded = FALSE
    /\ FramerIdle
    /\ RelayIdle
    /\ CloseIdle
    /\ SerialIdle
    /\ mu = "free"
    /\ cfg = NoCfg
    /\ vres = NoValidation
    /\ chkData \in SeqsUpTo(ChkBytes, MaxPayload)
    /\ chkCmd = <<>>
    /\ stn = NoStation
    /\ ports = NoPorts

NextChk == AddChk

SpecChk == InitChk /\ [][NextChk]_vars

\* The two hexadecimal digits (upper case) of a byte, as ASCII.
HexDigit(n) == IF n < 10 THEN 48 + n ELSE 55 + n
TwoHex(b) == <<HexDigit(b \div 16), HexDigit(b % 16)>>

\* C31: addChk(data) is '$', data, '*', then the XOR of the bytes of data as
\* exactly two hexadecimal digits.
C31_ChecksumTwoHexDigits ==
    chkCmd # <<>> => chkCmd = <<Dollar>> \o chkData \o <<Star>> \o TwoHex(checksum(chkData))

------------------------------------------------------------------------------
(* Start-up initialisation: which failures stop it *)

\* C32: in start-up initialisation a failed write of the first (baud-rate)
\* command does not stop it: the second command is written all the same;
\* a failed later write or a failed close is the last thing initialisation
\* does, and that error is the one recorded and reported.
C32_OnlyBaudFailureTolerated ==
    /\ (initLog # <<>> /\ initLog[1] # NoErr) => Len(initLog) >= 2
    /\ \A i \in 2..Len(initLog) :
          initLog[i] # NoErr =>
              /\ i = Len(initLog)
              /\ rpc = "initFailed"
              /\ LastErrorGet(err) = initLog[i]
    /\ rpc = "initFailed" => (Len(initLog) >= 2 /\ initLog[Len(initLog)] # NoErr)

\* The baud-rate command failed, the next one was written, and the third
\* one's failure stopped initialisation.
C32_Witness ==
    /\ rpc = "initFailed"
    /\ initLog = <<errI2CWrite, NoErr, errI2CWrite>>

------------------------------------------------------------------------------
(* Handles whose open failed *)

\* C33: no read, write or close is attempted on a handle whose open failed.
\* A failed open leaves the handle nil, and an operation on a nil handle is
\* what takes start-up to "initPanic" and the relay to "exitPanic".
C33_NoUseAfterFailedOpen == rpc \notin {"initPanic", "exitPanic"}

------------------------------------------------------------------------------
(* The relay after a failed read *)

\* C34: in the two-address relay an iteration whose read failed writes
\* nothing to the write address.
C34_FailedReadWritesNothing ==
    (comp = "gpsrtki2c" /\ wrote # <<>>) => readOk

------------------------------------------------------------------------------
(* Sentences split over several reads *)

\* C35: the partial-sentence buffer outlives the block it was filled from.
\* A CR that ends a sentence longer than one block can hold before it (so the
\* sentence arrived over several reads) emits exactly that sentence, the
\* non-dropped bytes fed since the previous CR, and empties the buffer; no
\* other byte emits anything or shortens the buffer.
C35_SplitSentenceEmittedOnce ==
    /\ (feed.fed /\ feed.byte = CR /\ Len(feed.keptBefore) >= BlockLen)
       => (feed.emitted = <<feed.keptBefore>> /\ strBuf = <<>>)
    /\ (feed.fed /\ feed.byte # CR)
       => (feed.emitted = <<>> /\ Len(strBuf) >= Len(feed.before))

------------------------------------------------------------------------------
(* Construction of the I2C rover: start-up, the spawn of the ingest task and
   the constructor's return *)

\* startGPSNMEA after initializeI2C has returned: whether or not it failed,
\* activeBackgroundWorkers.Add(1) and the ingest task is launched on the
\* component's own context.
SpawnIngest ==
    /\ rpc \in {"initFailed", "start"}
    /\ pc = "idle"
    /\ pc' = "top"
    /\ ret' = NoRet
    /\ UNCHANGED <<ext, comp, err, lastposition, data, closing, outcomes, everDegraded>>

\* startGPSNMEA returns the recorded error, start() returns it before it
\* launches the relay, and newRTKI2CNoNetwork returns nil and the error:
\* cancelFunc is not called and nothing waits for the task.
ConstructorFails ==
    /\ rpc = "initFailed"
    /\ pc # "idle"
    /\ rpc' = "constructFailed"
    /\ ret' = NoRet
    /\ UNCHANGED <<relayRest, err, cpc, handleVars, buf, readOk, wrote, ioFailed, closeErr>>

InitConstruct ==
    /\ InitRelayI2C
    /\ comp = "gpsrtki2c"

\* After a successful start-up the relay is launched (SpecRelayI2C follows
\* it); here Close of the constructed instance is followed as far as the
\* ingest task is concerned.
NextConstruct ==
    \/ \E e \in {NoErr, errI2COpen} : InitOpen(e)
    \/ \E e251, e314, e220 \in {NoErr, errI2CWrite} : InitWrite(e251, e314, e220)
    \/ \E e \in {NoErr, errI2CClose} : InitClose(e)
    \/ SpawnIngest
    \/ ConstructorFails
    \/ IngestStep
    \/ (pc # "idle" /\ RoverCloseCancel)
    \/ \E e \in {NoErr, errI2CClose, errAlreadyClosed} : RoverCloseHandle(e)

SpecConstruct == InitConstruct /\ [][NextConstruct]_vars

\* C36: once the constructor has returned an error after a failed start-up,
\* every task that start-up spawned has been cancelled or has ended.
C36_FailedStartLeavesNoTask ==
    rpc = "constructFailed" => (closing # "no" \/ pc \in Exits)

------------------------------------------------------------------------------
(* The I2C correction station and its correction source: the ready handshake
   and Close *)

\* stn.task is the station's task (rtkStationI2C.start), stn.src the source's
\* task (i2cCorrectionSource.Start); "off" is a task never launched, "done"
\* one that has returned.  cancelled and srcCancelled are the two contexts,
\* srcMu is correctionReaderMu, close is the position of the station's Close,
\* bus is the handle of the source's task, and srcExit remembers where the
\* source's task returned.  The channel
\* ready is unbuffered: a send and a receive happen together or not at all.

\* err is the source's tracker s.err; the station's own tracker is never set.
stationRest0 == <<comp, lastposition, data, ret, pc, closing, outcomes, everDegraded,
                  framerVars, relayVars, closeVars, serialVars, mu, cfg, vres, chkData, chkCmd,
                  ports>>
stationRest == <<stationRest0, err>>

\* start: if err := r.cancelCtx.Err(); err != nil { return }
StationCheck ==
    /\ stn.task = "check"
    /\ stn' = [stn EXCEPT !.task = IF stn.cancelled THEN "done" ELSE "callStart"]
    /\ UNCHANGED stationRest

\* start: ready := make(chan bool); r.correctionSource.Start(ready), which
\* adds one to the source's wait group, launches its task and returns.
StationStartsSource ==
    /\ stn.task = "callStart"
    /\ stn' = [stn EXCEPT !.task = "select", !.src = "check1"]
    /\ UNCHANGED stationRest

\* start: the case <-r.cancelCtx.Done() of the select.
StationSelectDone ==
    /\ stn.task = "select"
    /\ stn.cancelled
    /\ stn' = [stn EXCEPT !.task = "done"]
    /\ UNCHANGED stationRest

\* The station's case <-ready and the source's case ready <- true: the
\* station's task returns, the source goes on to the bus.
ReadyHandshake ==
    /\ stn.task = "select"
    /\ stn.src = "send"
    /\ stn' = [stn EXCEPT !.task = "done", !.src = "preOpen"]
    /\ UNCHANGED stationRest

\* Start: if err := s.cancelCtx.Err(); err != nil { return }
SourceCheck ==
    /\ stn.src = "check1"
    /\ stn' = IF stn.srcCancelled
              THEN [stn EXCEPT !.src = "done", !.srcExit = "check1"]
              ELSE [stn EXCEPT !.src = "lock"]
    /\ UNCHANGED stationRest

\* Start: s.correctionReaderMu.Lock()
SourceLock ==
    /\ stn.src = "lock"
    /\ stn.srcMu = "free"
    /\ stn' = [stn EXCEPT !.src = "locked", !.srcMu = "source"]
    /\ UNCHANGED stationRest

\* Start: the second check of the context, under the lock, and the Unlock on
\* either branch.
SourceCheckLocked ==
    /\ stn.src = "locked"
    /\ stn' = IF stn.srcCancelled
              THEN [stn EXCEPT !.src = "done", !.srcMu = "free", !.srcExit = "check2"]
              ELSE [stn EXCEPT !.src = "send", !.srcMu = "free"]
    /\ UNCHANGED stationRest

\* Start: the case <-s.cancelCtx.Done() of the select on ready.
SourceSendCancelled ==
    /\ stn.src = "send"
    /\ stn.srcCancelled
    /\ stn' = [stn EXCEPT !.src = "done", !.srcExit = "send"]
    /\ UNCHANGED stationRest

\* Start: i2cBus, err := i2c.NewI2C(s.addr, s.bus); s.err.Set(err), before
\* the loop and in every iteration; the error is not tested.
SourceOpen(e) ==
    /\ stn.src \in {"preOpen", "open"}
    /\ stn' = [stn EXCEPT !.bus = Opened(e),
                          !.src = IF stn.src = "preOpen" THEN "preRead" ELSE "read"]
    /\ err' = LastErrorSet(err, e)
    /\ UNCHANGED stationRest0

\* Start: _, err = i2cBus.ReadBytes(buf).  On a nil handle the call panics;
\* the panic is captured and the task ends.  Before the loop a failed read is
\* only logged, in the loop it returns, past the Close.
SourceRead(e) ==
    /\ stn.src \in {"preRead", "read"}
    /\ stn' = IF stn.bus = "nil"
              THEN [stn EXCEPT !.src = "done", !.srcExit = "panic"]
              ELSE IF stn.src = "preRead" THEN [stn EXCEPT !.src = "preClose"]
              ELSE IF e # NoErr THEN [stn EXCEPT !.src = "done", !.srcExit = "readFailed"]
              ELSE [stn EXCEPT !.src = "close"]
    /\ err' = IF stn.bus # "nil" /\ stn.src = "read" THEN LastErrorSet(err, e) ELSE err
    /\ UNCHANGED stationRest0

\* Start: err = i2cBus.Close(); a failure returns.
SourceClose(e) ==
    /\ stn.src \in {"preClose", "close"}
    /\ stn' = IF e # NoErr
              THEN [stn EXCEPT !.src = "done", !.srcExit = "closeFailed",
                               !.bus = AfterClose(stn.bus, e)]
              ELSE [stn EXCEPT !.src = "top", !.bus = AfterClose(stn.bus, e)]
    /\ err' = LastErrorSet(err, e)
    /\ UNCHANGED stationRest0

\* Start, top of the loop: select on s.cancelCtx.Done().
SourceTop ==
    /\ stn.src = "top"
    /\ stn' = IF stn.srcCancelled
              THEN [stn EXCEPT !.src = "done", !.srcExit = "top"]
              ELSE [stn EXCEPT !.src = "open"]
    /\ UNCHANGED stationRest

\* rtkStationI2C.Close: r.cancelFunc()
StationCloseCancel ==
    /\ stn.close = "idle"
    /\ stn' = [stn EXCEPT !.cancelled = TRUE, !.close = "wait"]
    /\ UNCHANGED stationRest

\* rtkStationI2C.Close: r.activeBackgroundWorkers.Wait()
StationCloseNoWait ==
    /\ stn.close = "wait"
    /\ stn' = [stn EXCEPT !.close = "srcClose"]
    /\ UNCHANGED stationRest
StationCloseWait ==
    /\ stn.close = "wait"
    /\ stn.task = "done"
    /\ stn' = [stn EXCEPT !.close = "srcClose"]
    /\ UNCHANGED stationRest

\* i2cCorrectionSource.Close: s.correctionReaderMu.Lock()
SourceCloseLock ==
    /\ stn.close = "srcClose"
    /\ stn.srcMu = "free"
    /\ stn' = [stn EXCEPT !.srcMu = "close", !.close = "srcLocked"]
    /\ UNCHANGED stationRest

\* i2cCorrectionSource.Close: s.cancelFunc()
SourceCloseCancel ==
    /\ stn.close = "srcLocked"
    /\ stn' = [stn EXCEPT !.srcCancelled = TRUE, !.close = "srcCancelled"]
    /\ UNCHANGED stationRest

\* i2cCorrectionSource.Close: the reader is nil (the source never assigns
\* it), so nothing is closed; s.correctionReaderMu.Unlock()
SourceCloseUnlock ==
    /\ stn.close = "srcCancelled"
    /\ stn' = [stn EXCEPT !.srcMu = "free", !.close = "srcWait"]
    /\ UNCHANGED stationRest

\* i2cCorrectionSource.Close: s.activeBackgroundWorkers.Wait() and the
\* tracker's error unless it is the cancellation error; the station's Close
\* returns that error, or nil.
SourceCloseWait ==
    /\ stn.close = "srcWait"
    /\ stn.src \in {"off", "done"}
    /\ stn' = [stn EXCEPT !.close = "returned", !.closeRet = CloseResult(err)]
    /\ UNCHANGED stationRest

InitStation ==
    /\ comp = "stationi2c"
    /\ err = NewNMEALastError
    /\ lastposition = NewLastPosition
    /\ data = NewGPSData
    /\ ret = NoRet
    /\ pc = "idle"
    /\ closing = "no"
    /\ outcomes = <<>>
    /\ everDegraded = FALSE
    /\ FramerIdle
    /\ RelayIdle
    /\ CloseIdle
    /\ SerialIdle
    /\ mu = "free"
    /\ cfg = NoCfg
    /\ vres = NoValidation
    /\ chkData = <<>>
    /\ chkCmd = <<>>
    /\ ports = NoPorts
    /\ stn = [NoStation EXCEPT !.task = "check"]

StationTaskStep ==
    \/ StationCheck
    \/ StationStartsSource
    \/ StationSelectDone
    \/ ReadyHandshake

SourceTaskStep ==
    \/ ReadyHandshake
    \/ SourceCheck
    \/ SourceLock
    \/ SourceCheckLocked
    \/ SourceSendCancelled
    \/ \E e \in {NoErr, errI2COpen} : SourceOpen(e)
    \/ \E e \in {NoErr, errI2CRead} : SourceRead(e)
    \/ \E e \in {NoErr, errI2CClose} : SourceClose(e)
    \/ SourceTop

StationCloseStep ==
    \/ StationCloseWait
    \/ SourceCloseLock
    \/ SourceCloseCancel
    \/ SourceCloseUnlock
    \/ SourceCloseWait

NextStation ==
    \/ StationCheck
    \/ StationStartsSource
    \/ StationSelectDone
    \/ ReadyHandshake
    \/ SourceCheck
    \/ SourceLock
    \/ SourceCheckLocked
    \/ SourceSendCancelled
    \/ \E e \in {NoErr, errI2COpen} : SourceOpen(e)
    \/ \E e \in {NoErr, errI2CRead} : SourceRead(e)
    \/ \E e \in {NoErr, errI2CClose} : SourceClose(e)
    \/ SourceTop
    \/ StationCloseCancel
    \/ StationCloseWait
    \/ SourceCloseLock
    \/ SourceCloseCancel
    \/ SourceCloseUnlock
    \/ SourceCloseWait

SpecStation == InitStation /\ [][NextStation]_vars

\* Each task takes its next step when it has one (a bus operation in flight
\* returns), and a Close that has begun goes on when what it waits for has
\* happened.
SpecStationFair ==
    /\ SpecStation
    /\ WF_vars(StationTaskStep)
    /\ WF_vars(SourceTaskStep)
    /\ WF_vars(StationCloseStep)

TaskOver(t) == t \in {"off", "done"}

\* C37: a station Close that has begun returns, whatever the tasks were doing
\* when it began, and when it has returned neither the station's task nor the
\* source's task is running or waiting on the ready channel.
C37_StationCloseJoins ==
    /\ [](stn.close = "returned" => (TaskOver(stn.task) /\ TaskOver(stn.src)))
    /\ (stn.close # "idle") ~> (stn.close = "returned")

\* Close has returned after the source had been left waiting to send on
\* ready: the station's task took its cancellation before the handshake.
C37_Witness ==
    /\ stn.close = "returned"
    /\ stn.srcExit = "send"

------------------------------------------------------------------------------
(* The correction-reader mutex in the serial rover's Close *)

\* C39: Close of the serial rover releases the correction-reader mutex once
\* on every path; it never unlocks the mutex a second time (an unlock of an
\* unlocked sync.Mutex is a fatal error, the state "crashed").
C39_MutexReleasedOnce == cpc # "crashed"

------------------------------------------------------------------------------
(* The serial rover's port handles: who opens them, which field refers to
   them, and what Close closes *)

\* SpecRelaySerial follows the relay with the state of the port each field
\* refers to.  Here the handles themselves are followed: "nmeaPort" is the
\* handle the ingest task opens through openNMEAPath, "readerPort" the one the
\* relay opens through openCorrectionReader and "relayPort" the one the relay
\* opens through openNMEAPath, each "unopened", "open", "closed" or
\* "closeFailed"; ports.correctionReader and ports.correctionWriter are the
\* two fields, "nil" or the handle they refer to.  err is g.err.

errSerialRead == "errSerialRead"

portsRest == <<comp, lastposition, data, ret, pc, closing, outcomes, everDegraded,
               framerVars, relayVars, closeVars, serialVars, mu, cfg, vres, chkData, chkCmd,
               stn>>

\* openNMEAPath as called for handle id: nil if cancelled, the field left
\* alone; else g.correctionWriter, err = slib.Open(options) assigns the field
\* on success and on failure, and a failure is recorded.
openNMEAPath(p, id, e) ==
    IF p.cancelled THEN [ports |-> p, port |-> "nil", err |-> NoErr]
    ELSE IF e # NoErr
         THEN [ports |-> [p EXCEPT !.correctionWriter = "nil"], port |-> "nil", err |-> e]
         ELSE [ports |-> [p EXCEPT !.correctionWriter = id, !.h[id] = "open"],
               port |-> id, err |-> NoErr]

\* openCorrectionReader: the same for g.correctionReader.
openCorrectionReader(p, e) ==
    IF p.cancelled THEN [ports |-> p, port |-> "nil", err |-> NoErr]
    ELSE IF e # NoErr
         THEN [ports |-> [p EXCEPT !.correctionReader = "nil"], port |-> "nil", err |-> e]
         ELSE [ports |-> [p EXCEPT !.correctionReader = "readerPort",
                                   !.h["readerPort"] = "open"],
               port |-> "readerPort", err |-> NoErr]

SetIfFailed(e) == err' = IF e # NoErr THEN LastErrorSet(err, e) ELSE err

\* readNMEAMessages: r := bufio.NewReader(g.openNMEAPath())
NMEAOpen(e) ==
    /\ ports.nmea = "open"
    /\ LET o == openNMEAPath(ports, "nmeaPort", e)
       IN  /\ ports' = [o.ports EXCEPT !.nmea = IF o.port = "nil" THEN "nilReader" ELSE "top"]
           /\ SetIfFailed(o.err)
    /\ UNCHANGED portsRest

\* readNMEAMessages, one iteration: return if cancelled; ReadString on a
\* reader over nil panics and the task ends; a read error is recorded and
\* returns; else the line is parsed and the loop goes on.
NMEARead(e) ==
    /\ ports.nmea \in {"top", "nilReader"}
    /\ IF ports.cancelled \/ ports.nmea = "nilReader"
       THEN ports' = [ports EXCEPT !.nmea = "done"] /\ UNCHANGED err
       ELSE /\ ports' = [ports EXCEPT !.nmea = IF e # NoErr THEN "done" ELSE "top"]
            /\ SetIfFailed(e)
    /\ UNCHANGED portsRest

\* receiveAndWriteSerial: return if cancelled.
PortsRelayStart ==
    /\ ports.relay = "start"
    /\ ports' = [ports EXCEPT !.relay = IF ports.cancelled THEN "done" ELSE "openReader"]
    /\ UNCHANGED <<portsRest, err>>

\* receiveAndWriteSerial: reader := g.openCorrectionReader()
PortsRelayOpenReader(e) ==
    /\ ports.relay = "openReader"
    /\ LET o == openCorrectionReader(ports, e)
       IN  /\ ports' = [o.ports EXCEPT !.relay = "openWriter"]
           /\ SetIfFailed(o.err)
    /\ UNCHANGED portsRest

\* receiveAndWriteSerial: g.correctionWriter = g.openNMEAPath(): the field is
\* assigned what openNMEAPath returned, nil included.
PortsRelayOpenWriter(e) ==
    /\ ports.relay = "openWriter"
    /\ LET o == openNMEAPath(ports, "relayPort", e)
       IN  /\ ports' = [o.ports EXCEPT !.relay = "top", !.correctionWriter = o.port]
           /\ SetIfFailed(o.err)
    /\ UNCHANGED portsRest

\* receiveAndWriteSerial, one iteration of the loop, which opens and closes
\* no port: it returns if cancelled, and else goes on or ends (a failed
\* message, a panic on a nil reader or writer).
PortsRelayLoop(ends) ==
    /\ ports.relay = "top"
    /\ ports' = [ports EXCEPT !.relay = IF ports.cancelled \/ ends THEN "done" ELSE "top"]
    /\ UNCHANGED <<portsRest, err>>

\* Close: g.cancelFunc()
PortsCloseCancel ==
    /\ ports.close = "idle"
    /\ ports' = [ports EXCEPT !.cancelled = TRUE, !.close = "wait"]
    /\ UNCHANGED <<portsRest, err>>

ClosedAs(e) == IF e = NoErr THEN "closed" ELSE "closeFailed"

\* Close after g.activeBackgroundWorkers.Wait(): the handle g.correctionReader
\* refers to is closed (a failure leads to the second Unlock), then the handle
\* g.correctionWriter refers to; both fields are set to nil.
PortsCloseAfterWait(eR, eW) ==
    /\ ports.close = "wait"
    /\ ports.nmea = "done"
    /\ ports.relay = "done"
    /\ LET r == ports.correctionReader
           w == ports.correctionWriter
           p1 == IF r = "nil" THEN ports
                 ELSE [ports EXCEPT !.h[r] = ClosedAs(eR), !.correctionReader = "nil"]
           p2 == IF w = "nil" THEN p1
                 ELSE [p1 EXCEPT !.h[w] = ClosedAs(eW), !.correctionWriter = "nil"]
       IN  IF r # "nil" /\ eR # NoErr
           THEN ports' = [p1 EXCEPT !.close = "crashed"] /\ SetIfFailed(eR)
           ELSE /\ ports' = [p2 EXCEPT !.close = "returned"]
                /\ SetIfFailed(IF w = "nil" THEN NoErr ELSE eW)
    /\ UNCHANGED portsRest

InitPorts ==
    /\ comp = "gpsrtkserial"
    /\ err = NewTracker(comp)
    /\ lastposition = NewLastPosition
    /\ data = NewGPSData
    /\ ret = NoRet
    /\ pc = "idle"
    /\ closing = "no"
    /\ outcomes = <<>>
    /\ everDegraded = FALSE
    /\ FramerIdle
    /\ RelayIdle
    /\ CloseIdle
    /\ SerialIdle
    /\ mu = "free"
    /\ cfg = NoCfg
    /\ vres = NoValidation
    /\ chkData = <<>>
    /\ chkCmd = <<>>
    /\ stn = NoStation
    /\ ports = [NoPorts EXCEPT !.nmea = "open", !.relay = "start"]

NextPorts ==
    \/ \E e \in {NoErr, errSerialOpen} : NMEAOpen(e)
    \/ \E e \in {NoErr, errSerialRead} : NMEARead(e)
    \/ PortsRelayStart
    \/ \E e \in {NoErr, errSerialOpen} : PortsRelayOpenReader(e)
    \/ \E e \in {NoErr, errSerialOpen} : PortsRelayOpenWriter(e)
    \/ \E ends \in BOOLEAN : PortsRelayLoop(ends)
    \/ PortsCloseCancel
    \/ \E eR, eW \in ClosePortOutcomes : PortsCloseAfterWait(eR, eW)

SpecPorts == InitPorts /\ [][NextPorts]_vars

\* C38: when Close of the serial rover has returned, no port handle the
\* component opened is still open.
C38_OpenedPortsClosed ==
    ports.close = "returned" => \A id \in PortHandles : ports.h[id] # "open"

====
